---- MODULE Spec2Model ----
(***************************************************************************)
(* State-machine model of the scheduling core of COVI-AgentSim's           *)
(* interactive planner (src/src/covid19sim/interactivity/                  *)
(* interactive_planner.py and src/src/covid19sim/utils/mobility_planner.py)*)
(*                                                                         *)
(* Times are integers (seconds on a coarse grid); a "- 1.0" of the source  *)
(* is one grid step.  Python exceptions are modelled as an "exc" field of  *)
(* the result of an operation; the state at the raise is the state kept.   *)
(***************************************************************************)
EXTENDS Integers, Sequences, FiniteSets, TLC

VARIABLES
    rd,      \* stand-alone RangeDict: [store, FLUT, BLUT]
    rdres,   \* last RangeDict operation: [op, key, exc, out]
    msin,    \* arguments of a _modify_schedule call: [heap, remaining_schedule, new_activity, new_schedule]
    msout,   \* its outcome: [done, heap, schedule, valid, exc]
    heap,    \* the Activity objects of the planner's world
    mp,      \* the planner (InteractivePlanner) of one human
    now,     \* env.timestamp
    pc,      \* "constructed", "initialized", "running" or "halted" (an exception escaped)
    res,     \* last planner call: [op, ret, exc]
    fin,     \* a call of one of the schedule-building functions: [fn, h, ...arguments]
    fout,    \* its outcome: [done, h, ..., exc]
    city,    \* the hospitals of the city: their patients and those of their ICUs
    planners \* the health-related fields of the planner of each human of the city

rdVars == <<rd, rdres>>
msVars == <<msin, msout>>
plannerVars == <<heap, mp, now, pc, res>>
fnVars == <<fin, fout>>
cityVars == <<city, planners>>
vars == <<rd, rdres, msin, msout, heap, mp, now, pc, res, fin, fout, city, planners>>

\* ------------------------------------------------------------------------
\* Bounds of the model
\* ------------------------------------------------------------------------
\* largest interval endpoint used by the stand-alone RangeDict specification
MaxKey == 4
\* most entries before the closing sleep of the suffix schedule handed to a
\* stand-alone _modify_schedule call
MaxSchedLen == 3

\* ------------------------------------------------------------------------
\* Generic helpers
\* ------------------------------------------------------------------------
\* Python's tuple comparison for pairs
TupleLT(p, q) == p[1] < q[1] \/ (p[1] = q[1] /\ p[2] < q[2])

\* list.insert(i, x) with a 0-based index 0 <= i <= len
InsertAt(s, i, x) == SubSeq(s, 1, i) \o <<x>> \o SubSeq(s, i + 1, Len(s))

\* del list[i] with a 0-based index
RemoveAt(s, i) == SubSeq(s, 1, i) \o SubSeq(s, i + 2, Len(s))

\* the function f without the key k (del dict[k])
DropKey(f, k) == IF DOMAIN f \ {k} = {} THEN <<>> ELSE [x \in DOMAIN f \ {k} |-> f[x]]

\* ------------------------------------------------------------------------
\* RangeDict
\* ------------------------------------------------------------------------
\* the name of RangDictKeyException
RangDictKeyException == "RangDictKeyException"

\* RangeDict.__init__: an empty store, forward and backward lookup tables
RangeDict == [store |-> <<>>, FLUT |-> <<>>, BLUT |-> <<>>]

\* bisect.bisect_left(a, x) on a list of pairs: the loop of the library
RECURSIVE bisect_loop(_, _, _, _)
bisect_loop(a, x, lo, hi) ==
    IF lo < hi
    THEN LET mid == (lo + hi) \div 2
         IN  IF TupleLT(a[mid + 1], x)
             THEN bisect_loop(a, x, mid + 1, hi)
             ELSE bisect_loop(a, x, lo, mid)
    ELSE lo

bisect_left(a, x) == bisect_loop(a, x, 0, Len(a))

\* bisect.insort_left(a, x)
insort_left(a, x) == InsertAt(a, bisect_left(a, x), x)

\* _binary_key_search: the 0-based index of the interval holding key,
\* or -1 where the source raises RangDictKeyException("Key not found")
RECURSIVE _binary_key_search_loop(_, _, _, _)
_binary_key_search_loop(LUT, key, Lower, Upper) ==
    IF Lower <= Upper
    THEN LET i == (Lower + Upper) \div 2
         IN  IF i = Len(LUT) THEN -1
             ELSE IF LUT[i + 1][2] <= key
                  THEN _binary_key_search_loop(LUT, key, i + 1, Upper)
             ELSE IF LUT[i + 1][1] > key
                  THEN _binary_key_search_loop(LUT, key, Lower, i - 1)
             ELSE i
    ELSE -1

\* _binary_key_search with Lower starting at 1: the first interval is never probed
\* when it is the only one
_binary_key_search_fromOne(LUT, key) == _binary_key_search_loop(LUT, key, 1, Len(LUT))

_binary_key_search(LUT, key) == _binary_key_search_loop(LUT, key, 0, Len(LUT))

\* _check_range without its "at the start" case
_check_range_noStart(self, key) ==
    LET i_f == bisect_left(self.FLUT, <<key[1], key[1]>>)
        i_b == bisect_left(self.BLUT, <<key[2], key[2]>>)
        n == Len(self.FLUT)
    IN  IF key[1] >= key[2] THEN "not-valid"
        ELSE IF self.FLUT = <<>> /\ self.BLUT = <<>> THEN "ok"
        ELSE IF i_f = i_b
             THEN IF i_f = n /\ self.FLUT[n][2] > key[1] THEN "within-previous"
                  ELSE IF (i_f # n /\ i_f # 0)
                          /\ (self.FLUT[i_f][2] > key[1] \/ self.FLUT[i_f + 1][1] < key[2])
                       THEN "contained"
                  ELSE "ok"
        ELSE "index-mismatch"

\* _check_range with ">=" for ">" in its "at the end" case: adjacency refused
_check_range_closed(self, key) ==
    LET i_f == bisect_left(self.FLUT, <<key[1], key[1]>>)
        i_b == bisect_left(self.BLUT, <<key[2], key[2]>>)
        n == Len(self.FLUT)
    IN  IF key[1] >= key[2] THEN "not-valid"
        ELSE IF self.FLUT = <<>> /\ self.BLUT = <<>> THEN "ok"
        ELSE IF i_f = i_b
             THEN IF i_f = 0 /\ self.FLUT[i_f + 1][1] < key[2] THEN "impinges-start"
                  ELSE IF i_f = n /\ self.FLUT[n][2] >= key[1] THEN "within-previous"
                  ELSE IF (i_f # n /\ i_f # 0)
                          /\ (self.FLUT[i_f][2] > key[1] \/ self.FLUT[i_f + 1][1] < key[2])
                       THEN "contained"
                  ELSE "ok"
        ELSE "index-mismatch"

\* RangeDict._check_range: "ok", or the reason of the RangDictKeyException
_check_range(self, key) ==
    LET i_f == bisect_left(self.FLUT, <<key[1], key[1]>>)
        i_b == bisect_left(self.BLUT, <<key[2], key[2]>>)
        n == Len(self.FLUT)
    IN  IF key[1] >= key[2] THEN "not-valid"
        ELSE IF self.FLUT = <<>> /\ self.BLUT = <<>> THEN "ok"
        ELSE IF i_f = i_b
             THEN IF i_f = 0 /\ self.FLUT[i_f + 1][1] < key[2] THEN "impinges-start"
                  ELSE IF i_f = n /\ self.FLUT[n][2] > key[1] THEN "within-previous"
                  ELSE IF (i_f # n /\ i_f # 0)
                          /\ (self.FLUT[i_f][2] > key[1] \/ self.FLUT[i_f + 1][1] < key[2])
                       THEN "contained"
                  ELSE "ok"
        ELSE "index-mismatch"

\* RangeDict.__setitem__: [rd, exc]
__setitem__(self, key, value) ==
    LET chk == _check_range(self, key)
    IN  IF chk # "ok"
        THEN [rd |-> self, exc |-> RangDictKeyException, why |-> chk]
        ELSE [rd |-> [store |-> (key :> value) @@ self.store,
                      FLUT |-> insort_left(self.FLUT, <<key[1], key[2]>>),
                      BLUT |-> insort_left(self.BLUT, <<key[2], key[1]>>)],
              exc |-> "none", why |-> chk]

\* RangeDict.__getitem__ with a point key: [found, value]
__getitem__(self, key) ==
    LET i == _binary_key_search(self.FLUT, key)
    IN  IF i = -1 THEN [exc |-> RangDictKeyException, value |-> 0]
        ELSE [exc |-> "none", value |-> self.store[self.FLUT[i + 1]]]

\* RangeDict.__delitem__ with a point key ("key is tuple" never holds): [rd, exc]
__delitem__(self, key) ==
    LET i == _binary_key_search(self.FLUT, key)
    IN  IF i = -1 THEN [rd |-> self, exc |-> RangDictKeyException]
        ELSE [rd |-> [store |-> DropKey(self.store, self.FLUT[i + 1]),
                      FLUT |-> RemoveAt(self.FLUT, i),
                      BLUT |-> RemoveAt(self.BLUT, i)],
              exc |-> "none"]

\* RangeDict.__delitem__ with a (start, end) key: "key is tuple" compares the
\* key with the type and never holds, so the tuple itself goes to
\* _binary_key_search, whose first probe compares a number with it: [rd, exc]
__delitem__tuple(self, key) ==
    [rd |-> self, exc |-> IF self.FLUT = <<>> THEN RangDictKeyException ELSE "TypeError"]

\* RangeDict.get_range(start, end): the values; hasEnd = FALSE is end = None
get_range(self, start, hasEnd, end) ==
    LET start_index == _binary_key_search(self.FLUT, start)
        e == IF hasEnd THEN _binary_key_search(self.FLUT, end) ELSE -1
        end_index == IF e = -1 THEN Len(self.FLUT) ELSE e + 1
    IN  IF start_index = -1 THEN <<>>
        ELSE [k \in 1..(IF end_index > start_index THEN end_index - start_index ELSE 0)
                |-> self.store[self.FLUT[start_index + k]]]

\* ------------------------------------------------------------------------
\* Activity (objects live in a heap: a sequence of records, the id is the index)
\* ------------------------------------------------------------------------
\* Python's None for a time, a date or an object reference
None == -1

\* Activity.__init__
Activity(start_time, duration, name, location, owner, tentative_date, prepend_name, append_name) ==
    [start_time |-> start_time, duration |-> duration, name |-> name,
     location |-> location, tentative_date |-> tentative_date,
     prepend_name |-> prepend_name, append_name |-> append_name,
     is_cancelled |-> FALSE, owner |-> owner, rsvp |-> {},
     parent_activity_pointer |-> None, human_dies |-> FALSE]

\* Activity.end_time
end_time(a) == a.start_time + a.duration

\* Activity.clone: the new object
clone(a, prepend_name, append_name, new_owner) ==
    [Activity(a.start_time, a.duration, a.name, a.location, new_owner, None,
              prepend_name, append_name)
        EXCEPT !.parent_activity_pointer = a.parent_activity_pointer]

\* align with cut_left that moves the start and keeps the duration
align_keepDuration(a, new_activity, cut_left, prepend_name, new_owner) ==
    LET x == clone(a, prepend_name, "", new_owner)
    IN  IF cut_left
        THEN [x EXCEPT !.start_time = end_time(new_activity)]
        ELSE [x EXCEPT !.duration = new_activity.start_time - x.start_time]

\* Activity.align: the new object (its duration is asserted >= 0 by the caller)
align(a, new_activity, cut_left, prepend_name, new_owner) ==
    LET x == clone(a, prepend_name, "", new_owner)
    IN  IF cut_left
        THEN [x EXCEPT !.start_time = end_time(new_activity),
                       !.duration = x.duration - (end_time(new_activity) - x.start_time)]
        ELSE [x EXCEPT !.duration = new_activity.start_time - x.start_time]

\* Activity.set_location_tracker
set_location_tracker(a, activity) == [a EXCEPT !.parent_activity_pointer = activity]

\* the list s holds x (Python's "in")
InSeq(x, s) == \E i \in 1..Len(s) : s[i] = x

\* ------------------------------------------------------------------------
\* _modify_schedule
\* ------------------------------------------------------------------------
\* 0-based index of the first work activity of new_schedule, or -1
work_activity_idx(h, new_schedule) ==
    IF \E i \in 1..Len(new_schedule) : h[new_schedule[i]].name = "work"
    THEN (CHOOSE i \in 1..Len(new_schedule) :
             /\ h[new_schedule[i]].name = "work"
             /\ \A j \in 1..(i - 1) : h[new_schedule[j]].name # "work") - 1
    ELSE -1

\* the acceptance test without "new_activity starts before the last_activity"
_modify_schedule_valid_noStart(h, remaining_schedule, new_activity, new_schedule) ==
    LET last_activity == h[remaining_schedule[Len(remaining_schedule)]]
        n == h[new_activity]
        w == work_activity_idx(h, new_schedule)
    IN  /\ ~(end_time(n) <= end_time(last_activity))
        /\ ~(w # -1 /\ h[new_schedule[w + 1]].start_time <= n.start_time
                    /\ end_time(n) < end_time(h[new_schedule[w + 1]]))

\* the acceptance test at the head of _modify_schedule: the value of valid
_modify_schedule_valid(h, remaining_schedule, new_activity, new_schedule) ==
    LET last_activity == h[remaining_schedule[Len(remaining_schedule)]]
        n == h[new_activity]
        w == work_activity_idx(h, new_schedule)
    IN  /\ ~(end_time(n) <= end_time(last_activity))
        /\ ~(n.start_time < end_time(last_activity))
        /\ ~(w # -1 /\ h[new_schedule[w + 1]].start_time <= n.start_time
                    /\ end_time(n) < end_time(h[new_schedule[w + 1]]))

\* the loop over other_activities that fits new_activity in: [heap, partial, exc]
RECURSIVE _modify_schedule_fit(_, _, _, _, _)
_modify_schedule_fit(h, human, new_activity, other_activities, partial_schedule) ==
    IF other_activities = <<>> THEN [heap |-> h, partial |-> partial_schedule, exc |-> "none"]
    ELSE
    LET activity == Head(other_activities)
        rest == Tail(other_activities)
        a == h[activity]
        n == h[new_activity]
        first == a.start_time <= n.start_time
        second == a.start_time >= n.start_time
        withNew(ps) == IF InSeq(new_activity, ps) THEN ps ELSE Append(ps, new_activity)
    IN  IF first /\ end_time(a) <= n.start_time
        THEN _modify_schedule_fit(h, human, new_activity, rest, Append(partial_schedule, activity))
        ELSE IF second /\ end_time(a) <= end_time(n)
        THEN _modify_schedule_fit(h, human, new_activity, rest, withNew(partial_schedule))
        ELSE IF second /\ end_time(n) <= a.start_time
        THEN _modify_schedule_fit(h, human, new_activity, rest, Append(partial_schedule, activity))
        ELSE
        LET cut_right == first
            cut_left == (first /\ end_time(a) > end_time(n)) \/ second
            r == align(a, n, FALSE, "modified-cut-right", human)
            h1 == IF cut_right THEN Append(h, r) ELSE h
            p1 == IF cut_right THEN Append(partial_schedule, Len(h1)) ELSE partial_schedule
            p2 == withNew(p1)
            l == align(a, n, TRUE, "modified-cut-left", human)
            h2 == IF cut_left THEN Append(h1, l) ELSE h1
            p3 == IF cut_left THEN Append(p2, Len(h2)) ELSE p2
        IN  IF cut_right /\ r.duration < 0
            THEN [heap |-> h, partial |-> partial_schedule, exc |-> "AssertionError"]
            ELSE IF cut_left /\ l.duration < 0
            THEN [heap |-> h1, partial |-> p2, exc |-> "AssertionError"]
            ELSE _modify_schedule_fit(h2, human, new_activity, rest, p3)

\* _modify_schedule: [heap, schedule, valid, exc]
_modify_schedule(h, human, remaining_schedule, new_activity, new_schedule) ==
    LET fail(e) == [heap |-> h, schedule |-> <<>>, valid |-> FALSE, exc |-> e]
    IN  IF Len(remaining_schedule) = 0 THEN fail("AssertionError")
        ELSE IF Len(new_schedule) = 0 THEN fail("IndexError")
        ELSE IF end_time(h[remaining_schedule[Len(remaining_schedule)]])
                    # h[new_schedule[1]].start_time
        THEN fail("AssertionError")
        ELSE IF ~_modify_schedule_valid(h, remaining_schedule, new_activity, new_schedule)
        THEN fail("none")
        ELSE
        LET w == work_activity_idx(h, new_schedule)
            other_activities == SubSeq(new_schedule, (IF w < 0 THEN 0 ELSE w) + 1, Len(new_schedule))
            checked(g, full_schedule, e) ==
                LET raise(x) == [heap |-> g, schedule |-> <<>>, valid |-> FALSE, exc |-> x]
                IN  IF e # "none" THEN raise(e)
                    ELSE IF full_schedule = <<>> THEN raise("IndexError")
                    ELSE IF end_time(h[remaining_schedule[Len(remaining_schedule)]])
                                # g[full_schedule[1]].start_time
                    THEN raise("AssertionError")
                    ELSE IF g[full_schedule[Len(full_schedule)]].name # "sleep"
                    THEN raise("AssertionError")
                    ELSE IF \E i \in 1..(Len(full_schedule) - 1) :
                                \/ end_time(g[full_schedule[i]]) # g[full_schedule[i + 1]].start_time
                                \/ g[full_schedule[i]].duration < 0
                    THEN raise("AssertionError")
                    ELSE [heap |-> g, schedule |-> full_schedule, valid |-> TRUE, exc |-> "none"]
            assemble(fit) ==
                LET KeepHead(x) == fit.heap[x].duration > 0
                    KeepTail(x) == fit.heap[x].duration > 0 \/ fit.heap[x].name = "sleep"
                IN  checked(fit.heap,
                            SelectSeq(SubSeq(new_schedule, 1, IF w < 0 THEN 0 ELSE w), KeepHead)
                                \o SelectSeq(fit.partial, KeepTail),
                            fit.exc)
        IN  assemble(_modify_schedule_fit(h, human, new_activity, other_activities, <<>>))

\* ------------------------------------------------------------------------
\* Configuration and attributes of the human read by the planner
\* ------------------------------------------------------------------------
\* covid19sim.utils.constants.SECONDS_PER_DAY, in grid steps
SECONDS_PER_DAY == 8
\* conf['AVERAGE_TIME_SLEEPING'] * SECONDS_PER_HOUR, in grid steps
AVERAGE_TIME_SLEEPING == 2
\* conf['simulation_days']
simulation_days == 1
\* human.work_start_time, seconds since midnight: before and after the end of
\* the first sleep
WorkStartTimes == {1, 3}
\* env.timestamp when initialize runs (midnight of the first day)
t0 == 0
\* the driver runs the simulation until ts_initial + simulation_days * SECONDS_PER_DAY
end_time_of_simulation == t0 + simulation_days * SECONDS_PER_DAY
\* durations _sample_activity_duration / _presample_activity can draw
WorkDurs == {2}
SocializeDurs == {0, 1}
GroceryDurs == {0}
ExerciseDurs == {0}
AwakeDurs == {5}
SleepDurs == {3}
\* the human the planner belongs to, and the human who proposes socials
Human == "B"
Proposer == "A"
\* location.opening_time / closing_time and conf['<TYPE>_OPEN_CLOSE_HOUR_MINUTE']
OPEN_CLOSE_TIMES ==
    [household |-> <<0, SECONDS_PER_DAY>>, workplace |-> <<0, SECONDS_PER_DAY>>,
     hospital |-> <<0, SECONDS_PER_DAY>>, misc |-> <<0, SECONDS_PER_DAY>>,
     STORE |-> <<1, SECONDS_PER_DAY - 1>>, MISC |-> <<0, SECONDS_PER_DAY>>,
     PARK |-> <<0, SECONDS_PER_DAY>>, HOUSEHOLD |-> <<0, SECONDS_PER_DAY>>]

\* datetime.date() of a timestamp: the day number
date(t) == t \div SECONDS_PER_DAY
\* utils._get_seconds_since_midnight
_get_seconds_since_midnight(t) == t % SECONDS_PER_DAY
\* _get_datetime_for_seconds_since_midnight
_get_datetime_for_seconds_since_midnight(seconds_since_midnight, d) ==
    d * SECONDS_PER_DAY + seconds_since_midnight
\* Python's min
Min(a, b) == IF a <= b THEN a ELSE b

\* _get_open_close_times: <<opening_time, closing_time>>, or <<>> for ValueError
_get_open_close_times(activity_name, location) ==
    IF location # "None" THEN OPEN_CLOSE_TIMES[location]
    ELSE IF activity_name = "grocery" THEN OPEN_CLOSE_TIMES.STORE
    ELSE IF activity_name = "socialize" THEN OPEN_CLOSE_TIMES.MISC
    ELSE IF activity_name = "exercise" THEN OPEN_CLOSE_TIMES.PARK
    ELSE IF activity_name \in {"sleep", "idle"} THEN OPEN_CLOSE_TIMES.HOUSEHOLD
    ELSE <<>>

\* ------------------------------------------------------------------------
\* Building one day's schedule.  The state threaded through the builders is
\* [h: heap, schedule: ids, last: id of last_activity, awake: awake_duration,
\*  exc: exception raised or "none"]
\* ------------------------------------------------------------------------
Building(h, schedule, last, awake, exc) ==
    [h |-> h, schedule |-> schedule, last |-> last, awake |-> awake, exc |-> exc]

\* _make_hard_changes_to_activity_for_scheduling: [h, exc]
_make_hard_changes_to_activity_for_scheduling(h, next_activity, last_activity, keep_last_unchanged) ==
    LET n == h[next_activity]
        l == h[last_activity]
        h1 == IF ~keep_last_unchanged /\ l.start_time <= n.start_time
              THEN [h EXCEPT ![last_activity].duration = n.start_time - l.start_time]
              ELSE IF end_time(n) >= end_time(l)
              THEN LET moved == [n EXCEPT !.start_time = end_time(l)]
                   IN  [h EXCEPT ![next_activity] =
                            [moved EXCEPT !.duration = end_time(moved) - moved.start_time]]
              ELSE [h EXCEPT ![next_activity].start_time = end_time(l),
                             ![next_activity].duration = 0]
    IN  [h |-> h1,
         exc |-> IF h1[next_activity].duration >= 0 /\ h1[last_activity].duration >= 0
                 THEN "none" ELSE "AssertionError"]

\* _add_idle_activity with the idle activity starting where last_activity
\* starts instead of where it ends
_add_idle_activity_fromLastStart(h, schedule, next_activity, last_activity, awake_duration) ==
    LET duration == h[next_activity].start_time - end_time(h[last_activity])
    IN  IF duration = 0 THEN Building(h, schedule, last_activity, awake_duration, "none")
        ELSE IF ~(duration > 0)
        THEN Building(h, schedule, last_activity, awake_duration, "AssertionError")
        ELSE LET idle_activity == Activity(h[last_activity].start_time, duration, "idle",
                                           "household", Human, None, "", "")
                 h1 == Append(h, idle_activity)
             IN  Building(h1, Append(schedule, Len(h1)), Len(h1), awake_duration + duration, "none")

\* _add_idle_activity
_add_idle_activity(h, schedule, next_activity, last_activity, awake_duration) ==
    LET duration == h[next_activity].start_time - end_time(h[last_activity])
    IN  IF duration = 0 THEN Building(h, schedule, last_activity, awake_duration, "none")
        ELSE IF ~(duration > 0)
        THEN Building(h, schedule, last_activity, awake_duration, "AssertionError")
        ELSE LET idle_activity == Activity(end_time(h[last_activity]), duration, "idle",
                                           "household", Human, None, "", "")
                 h1 == Append(h, idle_activity)
             IN  Building(h1, Append(schedule, Len(h1)), Len(h1), awake_duration + duration, "none")

\* _add_to_the_schedule
_add_to_the_schedule(h, schedule, activity, last_activity, awake_duration) ==
    LET a == h[activity]
        same(g, e) == Building(g, schedule, last_activity, awake_duration, e)
        oc == _get_open_close_times(a.name, a.location)
    IN  IF a.start_time = None \/ a.start_time < end_time(h[last_activity])
        THEN same(h, "AssertionError")
        ELSE IF oc = <<>> THEN same(h, "ValueError")
        ELSE
        LET opening_time == oc[1]
            closing_time == oc[2]
            seconds_since_midnight == _get_seconds_since_midnight(a.start_time)
        IN  IF seconds_since_midnight > closing_time THEN same(h, "none")
            ELSE IF seconds_since_midnight < opening_time /\ a.tentative_date = None
            THEN same(h, "AttributeError")
            ELSE
            LET h1 == IF seconds_since_midnight < opening_time
                      THEN [h EXCEPT ![activity].start_time =
                                _get_datetime_for_seconds_since_midnight(opening_time, a.tentative_date)]
                      ELSE h
            IN  IF seconds_since_midnight < opening_time
                   /\ h1[activity].start_time < end_time(h1[last_activity])
                THEN same(h1, "none")
                ELSE
                LET h2 == IF closing_time # SECONDS_PER_DAY
                          THEN [h1 EXCEPT ![activity].duration =
                                    Min(closing_time - seconds_since_midnight, @)]
                          ELSE h1
                    idle_time == h2[activity].start_time - end_time(h2[last_activity])
                IN  IF h2[activity].duration < 0 \/ idle_time < 0
                    THEN same(h2, "AssertionError")
                    ELSE
                    LET append(b) ==
                            IF b.exc # "none" THEN b
                            ELSE IF end_time(b.h[b.last]) # b.h[activity].start_time
                            THEN [b EXCEPT !.exc = "AssertionError"]
                            ELSE Building(b.h, Append(b.schedule, activity), activity,
                                          b.awake + b.h[activity].duration, "none")
                    IN  append(IF idle_time > 0
                               THEN _add_idle_activity(h2, schedule, activity, last_activity,
                                                       awake_duration)
                               ELSE Building(h2, schedule, last_activity, awake_duration, "none"))

\* _add_sleep_to_schedule; awake and sleep are the durations the sampler draws
_add_sleep_to_schedule(h, schedule, last_sleep_activity, last_activity, awake_duration, max_awake_duration, awake, sleep) ==
    LET max_awake == IF max_awake_duration <= 0 THEN awake ELSE max_awake_duration
        start_time == end_time(h[last_sleep_activity]) + max_awake
        h1 == Append(h, Activity(start_time, sleep, "sleep", "household", Human, None, "", ""))
        sleep_activity == Len(h1)
    IN  IF h1[sleep_activity].start_time >= end_time(h1[last_activity])
        THEN LET b == _add_idle_activity(h1, schedule, sleep_activity, last_activity, awake_duration)
             IN  IF b.exc # "none" THEN b
                 ELSE _add_to_the_schedule(b.h, b.schedule, sleep_activity, b.last, b.awake)
        ELSE LET c == _make_hard_changes_to_activity_for_scheduling(h1, sleep_activity, last_activity, FALSE)
             IN  IF c.exc # "none" THEN Building(c.h, schedule, last_activity, awake_duration, c.exc)
                 ELSE _add_to_the_schedule(c.h, schedule, sleep_activity, last_activity, awake_duration)

\* the loop of _patch_schedule over activities[i..]
RECURSIVE _patch_schedule_loop(_, _, _, _)
_patch_schedule_loop(work_start_time, b, activities, i) ==
    IF i > Len(activities) \/ b.exc # "none" THEN b
    ELSE
    LET activity == activities[i]
        a == b.h[activity]
    IN  IF a.duration = 0 THEN _patch_schedule_loop(work_start_time, b, activities, i + 1)
        ELSE IF a.name = "work"
        THEN LET h1 == [b.h EXCEPT ![activity].start_time =
                            _get_datetime_for_seconds_since_midnight(work_start_time, a.tentative_date)]
                 c == IF h1[activity].start_time < end_time(h1[b.last])
                      THEN _make_hard_changes_to_activity_for_scheduling(h1, activity, b.last, FALSE)
                      ELSE [h |-> h1, exc |-> "none"]
             IN  IF c.exc # "none" THEN [b EXCEPT !.h = c.h, !.exc = c.exc]
                 ELSE _patch_schedule_loop(
                          work_start_time,
                          _add_to_the_schedule(c.h, b.schedule, activity, b.last, b.awake),
                          activities, i + 1)
        ELSE LET h1 == [b.h EXCEPT ![activity].start_time = end_time(b.h[b.last])]
             IN  _patch_schedule_loop(
                     work_start_time,
                     _add_to_the_schedule(h1, b.schedule, activity, b.last, b.awake),
                     activities, i + 1)

\* _patch_schedule: [h, schedule, exc]; work_start_time is human.work_start_time
_patch_schedule(h, work_start_time, last_activity, activities, awake, sleep) ==
    IF h[last_activity].name # "sleep"
    THEN Building(h, <<>>, last_activity, 0, "AssertionError")
    ELSE LET close(b) ==
                 IF b.exc # "none" THEN b
                 ELSE _add_sleep_to_schedule(b.h, b.schedule, last_activity, b.last, b.awake, 0,
                                             awake, sleep)
         IN  close(_patch_schedule_loop(work_start_time, Building(h, <<>>, last_activity, 0, "none"),
                                        activities, 1))

\* ------------------------------------------------------------------------
\* The planner object
\* ------------------------------------------------------------------------
\* MobilityPlanner.__init__ / InteractivePlanner.__init__: the fields of a new
\* planner (the fields the health model of the human assigns start unset)
MobilityPlanner ==
    [invitation |-> [accepted |-> {}, sent |-> {}, received |-> {}],
     schedule_for_day |-> <<>>, full_schedule |-> <<>>, current_activity |-> None,
     follows_adult_schedule |-> FALSE, schedule_prepared |-> {}, schedule_day |-> -1,
     human_to_rest_at_home |-> FALSE, hospitalization_timestamp |-> None,
     critical_condition_timestamp |-> None, death_timestamp |-> None,
     hospitalization_recovery_timestamp |-> None, location_of_hospitalization |-> "None",
     backing_schedule |-> RangeDict, sleep_schedule |-> <<>>]

\* the outcome of a planner method: the heap, the planner, what it returned
\* and the exception it raised ("none" when it returned)
Outcome(h, self, ret, exc) == [h |-> h, mp |-> self, ret |-> ret, exc |-> exc]

\* InteractivePlanner.get_schedule_for_day: [ret: the activities, exc]
get_schedule_for_day(h, self, day) ==
    LET n == Len(self.sleep_schedule)
        sleep(i) == h[self.sleep_schedule[i + 1]]
    IN  IF ~(day <= n - 2) THEN [ret |-> <<>>, exc |-> "AssertionError"]
        ELSE IF day = -1
        THEN [ret |-> get_range(self.backing_schedule, sleep(0).start_time, TRUE, sleep(0).start_time),
              exc |-> "none"]
        ELSE IF day = n - 2
        THEN [ret |-> get_range(self.backing_schedule, end_time(sleep(day)), FALSE, 0),
              exc |-> "none"]
        ELSE [ret |-> get_range(self.backing_schedule, end_time(sleep(day)), TRUE,
                                sleep(day + 1).start_time),
              exc |-> "none"]

\* the per-day loop of initialize (lines 96-120) from day i on:
\* [h, full_schedule, last, exc]; days[i + 1] holds the durations drawn for day i
RECURSIVE initialize_days(_, _, _, _, _, _)
initialize_days(h, work_start_time, last_activity, full_schedule, days, i) ==
    IF i >= Len(days)
    THEN [h |-> h, full_schedule |-> full_schedule, last |-> last_activity, exc |-> "none"]
    ELSE IF h[last_activity].name # "sleep"
    THEN [h |-> h, full_schedule |-> full_schedule, last |-> last_activity, exc |-> "AssertionError"]
    ELSE
    LET d == days[i + 1]
        tentative_date == date(t0) + i
        h1 == h \o <<Activity(None, d.work, "work", "workplace", Human, tentative_date, "", ""),
                     Activity(None, d.socialize, "socialize", "None", Human, tentative_date, "", ""),
                     Activity(None, d.grocery, "grocery", "None", Human, tentative_date, "", ""),
                     Activity(None, d.exercise, "exercise", "None", Human, tentative_date, "", "")>>
        to_schedule == <<Len(h) + 1, Len(h) + 2, Len(h) + 3, Len(h) + 4>>
        next_day(b) ==
            IF b.exc # "none"
            THEN [h |-> b.h, full_schedule |-> full_schedule, last |-> last_activity, exc |-> b.exc]
            ELSE IF b.schedule = <<>>
            THEN [h |-> b.h, full_schedule |-> full_schedule, last |-> last_activity,
                  exc |-> "IndexError"]
            ELSE initialize_days(b.h, work_start_time, b.schedule[Len(b.schedule)],
                                 Append(full_schedule, b.schedule), days, i + 1)
    IN  next_day(_patch_schedule(h1, work_start_time, last_activity, to_schedule, d.awake, d.sleep))

\* concatenation of the days of a full schedule
RECURSIVE Flatten(_)
Flatten(ss) == IF ss = <<>> THEN <<>> ELSE ss[1] \o Flatten(Tail(ss))

\* the loop of initialize that fills the backing store (lines 135-141) over
\* activities[i..]: [self, exc]
RECURSIVE initialize_store(_, _, _, _)
initialize_store(h, self, activities, i) ==
    IF i > Len(activities) THEN [mp |-> self, exc |-> "none"]
    ELSE
    LET activity == activities[i]
        a == h[activity]
    IN  IF a.start_time = end_time(a) THEN initialize_store(h, self, activities, i + 1)
        ELSE
        LET self1 == IF a.name = "sleep"
                     THEN [self EXCEPT !.sleep_schedule = Append(@, activity)]
                     ELSE self
            r == __setitem__(self1.backing_schedule, <<a.start_time, end_time(a)>>, activity)
        IN  IF r.exc # "none" THEN [mp |-> self1, exc |-> r.exc]
            ELSE initialize_store(h, [self1 EXCEPT !.backing_schedule = r.rd], activities, i + 1)

\* the loop of initialize that derives the days from the store (lines 144-148)
RECURSIVE initialize_derive(_, _, _, _)
initialize_derive(h, self, derived_schedule, cycle) ==
    IF cycle >= Len(self.sleep_schedule) - 1
    THEN [derived |-> derived_schedule, exc |-> "none"]
    ELSE LET r == get_schedule_for_day(h, self, cycle)
         IN  IF r.exc # "none" THEN [derived |-> derived_schedule, exc |-> r.exc]
             ELSE initialize_derive(h, self, Append(derived_schedule, r.ret), cycle + 1)

\* InteractivePlanner.initialize.  is_kid: human.age is at most
\* MAX_AGE_CHILDREN_WITHOUT_PARENT_SUPERVISION; has_adults: an older resident
\* lives in the household; days: the durations drawn for each of the n_days
initialize(h, self, is_kid, has_adults, work_start_time, days) ==
    LET duration == AVERAGE_TIME_SLEEPING
        h0 == Append(h, Activity(t0, duration, "sleep", "household", Human, None, "", ""))
        first == __setitem__(RangeDict, <<t0, t0 + duration>>, Len(h0))
        self0 == [self EXCEPT !.backing_schedule = first.rd]
    IN  IF first.exc # "none" THEN Outcome(h0, self0, "None", first.exc)
        ELSE
        LET self1 == [self0 EXCEPT !.current_activity = __getitem__(first.rd, t0).value,
                                   !.schedule_for_day = <<__getitem__(first.rd, t0).value>>,
                                   !.sleep_schedule = <<__getitem__(first.rd, t0).value>>,
                                   !.follows_adult_schedule = is_kid /\ has_adults]
            n_days == Len(days)
        IN  IF self1.follows_adult_schedule THEN Outcome(h0, self1, "None", "none")
            ELSE
            LET derive(h2, s) ==
                    IF s.exc # "none" THEN Outcome(h2, s.mp, "None", s.exc)
                    ELSE
                    LET d == initialize_derive(h2, s.mp, <<>>, 0)
                    IN  IF d.exc # "none" THEN Outcome(h2, s.mp, "None", d.exc)
                        ELSE Outcome(h2, [s.mp EXCEPT !.full_schedule = d.derived], "None", "none")
                store(p) ==
                    IF p.exc # "none" THEN Outcome(p.h, self1, "None", p.exc)
                    ELSE IF p.h[p.last].name # "sleep"
                    THEN Outcome(p.h, self1, "None", "AssertionError")
                    ELSE
                    LET last == p.h[p.last]
                        time_left_to_simulation_end == end_time(last) - t0
                    IN  IF ~(time_left_to_simulation_end > SECONDS_PER_DAY)
                        THEN Outcome(p.h, self1, "None", "AssertionError")
                        ELSE
                        LET filler == time_left_to_simulation_end < n_days * SECONDS_PER_DAY
                            h2 == IF filler
                                  THEN Append(p.h, Activity(end_time(last), time_left_to_simulation_end,
                                                            "sleep", "household", Human, None,
                                                            "filler", ""))
                                  ELSE p.h
                            full_schedule == IF filler THEN Append(p.full_schedule, <<Len(h2)>>)
                                             ELSE p.full_schedule
                        IN  derive(h2, initialize_store(h2, self1, Flatten(full_schedule), 1))
            IN  store(initialize_days(h0, work_start_time, self1.current_activity, <<>>, days, 0))

\* ------------------------------------------------------------------------
\* What the planner reads from outside itself when it finalises an activity:
\* the health model of the human, the city's hospitals and the random draws.
\*   dies_next      self.human_dies_in_next_activity
\*   will_die       self.human_will_die_if_critical
\*   hosp_due       the human-side conditions of "1. hospitalized given symptoms"
\*   crit_due       the human-side conditions of "2. critical given hospitalized"
\*   death_due      the human-side conditions of "3. death given critical"
\*   hospital       what _select_location finds for "hospital" / "hospital-icu"
\*   recovery_days  conf['AVERAGE_DAYS_RECOVERY_IF_HOSPITALIZED' / '..._IF_CRITICAL']
\*   quarantining   human.intervened_behavior.is_quarantining()
\*   rest_roll      rng.random() < 1 - _get_likelihood_to_go_out(human, conf)
\*   location       what _select_location finds for the activity
\*   recovered      _get_likelihood_to_go_out(human, conf) == 1.0 and
\*                  human.is_removed; the draw rest_roll then fails
\*   kids           the kids in self.inverted_supervision, in the order of the
\*                  iteration, each with the fields of its planner the gate reads
\* ------------------------------------------------------------------------
Healthy ==
    [dies_next |-> FALSE, will_die |-> FALSE, hosp_due |-> FALSE, crit_due |-> FALSE,
     death_due |-> FALSE, hospital |-> "hospital", recovery_days |-> 0,
     quarantining |-> FALSE, rest_roll |-> FALSE, location |-> "misc", kids |-> <<>>,
     recovered |-> FALSE]

HealthInputs ==
    {Healthy,
     [Healthy EXCEPT !.rest_roll = TRUE],
     [Healthy EXCEPT !.location = "None"],
     [Healthy EXCEPT !.quarantining = TRUE],
     [Healthy EXCEPT !.dies_next = TRUE],
     [Healthy EXCEPT !.hosp_due = TRUE],
     [Healthy EXCEPT !.hosp_due = TRUE, !.recovery_days = 1],
     [Healthy EXCEPT !.hosp_due = TRUE, !.hospital = "None"],
     [Healthy EXCEPT !.crit_due = TRUE, !.will_die = TRUE],
     [Healthy EXCEPT !.death_due = TRUE, !.will_die = TRUE]}

\* _human_dies that leaves location_of_hospitalization as it is
_human_dies_staysAdmitted(h, self, activity, timestamp) ==
    Outcome([h EXCEPT ![activity].human_dies = TRUE],
            [self EXCEPT !.death_timestamp = timestamp],
            "activity", "none")

\* _human_dies
_human_dies(h, self, activity, timestamp) ==
    Outcome([h EXCEPT ![activity].human_dies = TRUE],
            [self EXCEPT !.death_timestamp = timestamp, !.location_of_hospitalization = "None"],
            "activity", "none")

\* the append_name values that contain "Hospitalized"
HospitalizedNames == {"Hospitalized", "Hospitalized-recovered"}

\* the activities of one day _move_relevant_activities_to_hospital collects
\* before its inner loop breaks
RECURSIVE UntilRecovery(_, _, _)
UntilRecovery(h, schedule, recovery_time) ==
    IF schedule = <<>> THEN <<>>
    ELSE IF h[Head(schedule)].start_time > recovery_time
            /\ h[Head(schedule)].append_name \notin HospitalizedNames
    THEN <<>>
    ELSE <<Head(schedule)>> \o UntilRecovery(h, Tail(schedule), recovery_time)

\* _move_relevant_activities_to_hospital.  Activity defines neither
\* cancel_and_go_to_location nor _add_to_append_name: the first activity to
\* modify raises AttributeError
_move_relevant_activities_to_hospital(h, self, current_activity, timestamp, hospital, recovery_days) ==
    LET recovery_time == timestamp + recovery_days * SECONDS_PER_DAY
        self1 == [self EXCEPT !.hospitalization_recovery_timestamp = recovery_time,
                              !.location_of_hospitalization = hospital]
        EndsBefore(x) == end_time(h[x]) < recovery_time
        activities_to_modify ==
            SelectSeq(<<current_activity>> \o self.schedule_for_day, EndsBefore)
                \o Flatten([i \in 1..Len(self.full_schedule) |->
                               UntilRecovery(h, self.full_schedule[i], recovery_time)])
    IN  Outcome(h, self1, "activity",
                IF activities_to_modify # <<>> THEN "AttributeError" ELSE "none")

\* Activity.refresh_location: [h, exc]
refresh_location(h, activity) ==
    LET a == h[activity]
    IN  IF a.prepend_name \notin {"invitation", "supervised"} \/ a.parent_activity_pointer = None
        THEN [h |-> h, exc |-> "AssertionError"]
        ELSE [h |-> [h EXCEPT ![activity].location =
                        IF h[a.parent_activity_pointer].is_cancelled THEN "household"
                        ELSE h[a.parent_activity_pointer].location],
              exc |-> "none"]

\* InteractivePlanner._update_rest_at_home
_update_rest_at_home(self, rest_roll) ==
    IF self.hospitalization_timestamp # None \/ self.critical_condition_timestamp # None
    THEN [self EXCEPT !.human_to_rest_at_home = FALSE]
    ELSE [self EXCEPT !.human_to_rest_at_home = rest_roll]

\* the loop over self.inverted_supervision (lines 556-592) from kid i on:
\* "none" when no kid takes the adult along, or the exception raised.
\* Activity does not define cancel_and_go_to_location, so each of the three
\* branches raises AttributeError
RECURSIVE inverted_supervision_loop(_, _, _, _)
inverted_supervision_loop(self, a, kids, i) ==
    IF i > Len(kids) THEN "none"
    ELSE IF self.follows_adult_schedule THEN "AssertionError"
    ELSE IF \/ kids[i].location_of_hospitalization # "None"
            \/ kids[i].hospitalization_timestamp # None
            \/ kids[i].critical_condition_timestamp # None
    THEN "AttributeError"
    ELSE IF kids[i].quarantining THEN "AttributeError"
    ELSE IF /\ kids[i].human_to_rest_at_home
            /\ a.location # "None"
            /\ a.location # kids[i].household
    THEN "AttributeError"
    ELSE inverted_supervision_loop(self, a, kids, i + 1)

\* InteractivePlanner._modify_activity_location_if_needed from "hospitalization
\* related checks" on (lines 490-623)
_modify_activity_location_checks(h, self, activity, timestamp, env) ==
    IF env.hosp_due /\ self.hospitalization_timestamp = None
    THEN LET self1 == [self EXCEPT !.hospitalization_timestamp = timestamp]
         IN  IF env.hospital = "None" THEN _human_dies(h, self1, activity, timestamp)
             ELSE _move_relevant_activities_to_hospital(h, self1, activity, timestamp,
                                                        env.hospital, env.recovery_days)
    ELSE IF env.crit_due /\ self.hospitalization_timestamp # None
                         /\ self.critical_condition_timestamp = None
    THEN LET self1 == [self EXCEPT !.critical_condition_timestamp = timestamp]
         IN  IF env.hospital = "None" THEN _human_dies(h, self1, activity, timestamp)
             ELSE _move_relevant_activities_to_hospital(h, self1, activity, timestamp,
                                                        env.hospital, env.recovery_days)
    ELSE IF env.death_due /\ env.will_die /\ self.hospitalization_timestamp # None
                          /\ self.critical_condition_timestamp # None
                          /\ self.death_timestamp = None
    THEN _human_dies(h, self, activity, timestamp)
    ELSE IF inverted_supervision_loop(self, h[activity], env.kids, 1) # "none"
    THEN Outcome(h, self, "activity",
                 inverted_supervision_loop(self, h[activity], env.kids, 1))
    ELSE IF env.quarantining THEN Outcome(h, self, "activity", "AttributeError")
    ELSE
    LET self1 == _update_rest_at_home(self, env.rest_roll)
        a == h[activity]
    IN  IF self1.human_to_rest_at_home /\ a.location # "None" /\ a.location # "household"
        THEN Outcome(h, self1, "activity", "AttributeError")
        ELSE IF a.parent_activity_pointer # None
        THEN LET r == refresh_location(h, activity)
             IN  Outcome(r.h, self1, "activity", r.exc)
        ELSE IF a.location = "None"
        THEN Outcome([h EXCEPT ![activity].location = env.location], self1, "activity",
                     IF env.location = "None" THEN "AttributeError" ELSE "none")
        ELSE Outcome(h, self1, "activity", "none")

\* InteractivePlanner._modify_activity_location_if_needed
_modify_activity_location_if_needed(h, self, activity, timestamp, env) ==
    LET in_hospital == self.hospitalization_timestamp # None
                          \/ self.critical_condition_timestamp # None
    IN  IF self.death_timestamp # None THEN Outcome(h, self, "activity", "AssertionError")
        ELSE IF env.dies_next THEN _human_dies(h, self, activity, timestamp)
        ELSE IF in_hospital /\ ~env.will_die
                /\ timestamp >= self.hospitalization_recovery_timestamp
        THEN _modify_activity_location_checks(
                 h, [self EXCEPT !.hospitalization_timestamp = None,
                                 !.critical_condition_timestamp = None],
                 activity, timestamp, env)
        ELSE IF in_hospital /\ timestamp < self.hospitalization_recovery_timestamp
        THEN Outcome(h, self, "activity", "none")
        ELSE _modify_activity_location_checks(h, self, activity, timestamp, env)

\* InteractivePlanner._prepare_schedule for a planner with a presampled
\* schedule: [mp, ret: the schedule, exc]
_prepare_schedule(h, self) ==
    IF Len(self.schedule_for_day) # 0 \/ h[self.current_activity].name # "sleep"
    THEN [mp |-> self, ret |-> <<>>, exc |-> "AssertionError"]
    ELSE IF self.full_schedule = <<>>
    THEN [mp |-> self, ret |-> <<>>, exc |-> "IndexError"]
    ELSE [mp |-> [self EXCEPT !.full_schedule = Tail(@), !.schedule_day = @ + 1],
          ret |-> Head(self.full_schedule), exc |-> "none"]

\* get_schedule(for_kids=False) that returns the prepared schedule without
\* keeping it in schedule_for_day
get_schedule_notKept(h, self, timestamp) ==
    IF Len(self.schedule_for_day) = 0
    THEN LET p == _prepare_schedule(h, self)
         IN  IF p.exc # "none" THEN [mp |-> p.mp, exc |-> p.exc]
             ELSE [mp |-> [p.mp EXCEPT !.schedule_prepared = @ \cup {date(timestamp)}],
                   exc |-> "none"]
    ELSE [mp |-> self, exc |-> "none"]

\* InteractivePlanner.get_schedule(for_kids=True): [mp, ret: the list, exc]
get_schedule_for_kids(h, self) ==
    IF self.follows_adult_schedule THEN [mp |-> self, ret |-> <<>>, exc |-> "AssertionError"]
    ELSE [mp |-> self,
          ret |-> <<self.current_activity>> \o self.schedule_for_day
                     \o (IF Len(self.full_schedule) > 0 THEN self.full_schedule[1] ELSE <<>>),
          exc |-> "none"]

\* InteractivePlanner.get_schedule(for_kids=False): [mp, exc]
get_schedule(h, self, timestamp) ==
    IF Len(self.schedule_for_day) = 0
    THEN LET p == _prepare_schedule(h, self)
         IN  IF p.exc # "none" THEN [mp |-> p.mp, exc |-> p.exc]
             ELSE [mp |-> [p.mp EXCEPT !.schedule_for_day = p.ret,
                                       !.schedule_prepared = @ \cup {date(timestamp)}],
                   exc |-> "none"]
    ELSE [mp |-> self, exc |-> "none"]

\* get_next_activity that reads the head of the schedule and leaves it queued
get_next_activity_noPop(h, self, timestamp, env) ==
    LET s == get_schedule(h, self, timestamp)
    IN  IF s.exc # "none" THEN Outcome(h, s.mp, "None", s.exc)
        ELSE IF s.mp.schedule_for_day = <<>> THEN Outcome(h, s.mp, "None", "IndexError")
        ELSE
        LET popped == Head(s.mp.schedule_for_day)
            self1 == [s.mp EXCEPT !.current_activity = popped]
        IN  _modify_activity_location_if_needed(h, self1, popped, timestamp, env)

\* InteractivePlanner.get_next_activity
get_next_activity(h, self, timestamp, env) ==
    LET s == get_schedule(h, self, timestamp)
    IN  IF s.exc # "none" THEN Outcome(h, s.mp, "None", s.exc)
        ELSE IF s.mp.schedule_for_day = <<>> THEN Outcome(h, s.mp, "None", "IndexError")
        ELSE
        LET popped == Head(s.mp.schedule_for_day)
            self1 == [s.mp EXCEPT !.schedule_for_day = Tail(@), !.current_activity = popped]
        IN  _modify_activity_location_if_needed(h, self1, popped, timestamp, env)

\* the delete loop of _update_backing_schedule over time_range[i..]: [rd, exc]
RECURSIVE _update_backing_delete(_, _, _, _)
_update_backing_delete(h, store, time_range, i) ==
    IF i > Len(time_range) THEN [rd |-> store, exc |-> "none"]
    ELSE LET r == __delitem__(store, h[time_range[i]].start_time)
         IN  IF r.exc # "none" THEN r
             ELSE _update_backing_delete(h, r.rd, time_range, i + 1)

\* the insert loop of _update_backing_schedule over activities[i..]: [rd, exc]
RECURSIVE _update_backing_insert(_, _, _, _)
_update_backing_insert(h, store, activities, i) ==
    IF i > Len(activities) THEN [rd |-> store, exc |-> "none"]
    ELSE LET a == h[activities[i]]
             r == __setitem__(store, <<a.start_time, end_time(a)>>, activities[i])
         IN  IF r.exc # "none" THEN [rd |-> r.rd, exc |-> r.exc]
             ELSE _update_backing_insert(h, r.rd, activities, i + 1)

\* InteractivePlanner._update_backing_schedule: [rd, exc]
_update_backing_schedule(h, self, activities) ==
    IF activities = <<>> THEN [rd |-> self.backing_schedule, exc |-> "IndexError"]
    ELSE
    LET time_range == get_range(self.backing_schedule, h[activities[1]].start_time, TRUE,
                                end_time(h[activities[Len(activities)]]) - 1)
        d == _update_backing_delete(h, self.backing_schedule, time_range, 1)
    IN  IF d.exc # "none" THEN d
        ELSE _update_backing_insert(h, d.rd, activities, 1)

\* _can_accept_invite that does not look at death_timestamp
_can_accept_invite_ignoresDeath(today, mobility_planner, quarantining) ==
    /\ ~(\/ mobility_planner.human_to_rest_at_home
         \/ mobility_planner.hospitalization_timestamp # None
         \/ mobility_planner.critical_condition_timestamp # None)
    /\ ~(\/ mobility_planner.follows_adult_schedule
         \/ today \in mobility_planner.invitation.accepted
         \/ today \in mobility_planner.invitation.sent
         \/ today \in mobility_planner.invitation.received)
    /\ ~quarantining

\* _can_accept_invite
_can_accept_invite(today, mobility_planner, quarantining) ==
    /\ ~(\/ mobility_planner.human_to_rest_at_home
         \/ mobility_planner.hospitalization_timestamp # None
         \/ mobility_planner.critical_condition_timestamp # None
         \/ mobility_planner.death_timestamp # None)
    /\ ~(\/ mobility_planner.follows_adult_schedule
         \/ today \in mobility_planner.invitation.accepted
         \/ today \in mobility_planner.invitation.sent
         \/ today \in mobility_planner.invitation.received)
    /\ ~quarantining

\* InteractivePlanner.receive.  activity: the proposer's Activity object;
\* quarantining: human.intervened_behavior.is_quarantining(); accept_roll:
\* not (rng.random() < 1 - P_INVITATION_ACCEPTANCE)
receive(h, self, activity, timestamp, quarantining, accept_roll) ==
    LET today == date(timestamp)
        current_schedule == <<self.current_activity>> \o self.schedule_for_day
        last_end == end_time(h[current_schedule[Len(current_schedule)]])
        current == h[self.current_activity]
    IN  IF activity.name # "socialize" THEN Outcome(h, self, "None", "AssertionError")
        ELSE IF \/ ~_can_accept_invite(today, self, quarantining)
                \/ (activity.start_time < last_end /\ end_time(activity) >= last_end)
                \/ activity.start_time < end_time(current)
                \/ (current.name = "sleep" /\ end_time(activity) <= last_end)
        THEN Outcome(h, self, "False", "none")
        ELSE
        LET self1 == [self EXCEPT !.invitation.received = @ \cup {today}]
        IN  IF ~accept_roll THEN Outcome(h, self1, "False", "none")
            ELSE IF self1.full_schedule = <<>> THEN Outcome(h, self1, "None", "IndexError")
            ELSE IF end_time(activity) <= last_end /\ current.name = "sleep"
            THEN Outcome(h, self1, "False", "none")
            ELSE
            LET update_next_schedule == ~(end_time(activity) <= last_end)
                remaining_schedule == IF update_next_schedule THEN current_schedule
                                      ELSE <<self1.current_activity>>
                new_schedule == IF update_next_schedule THEN self1.full_schedule[1]
                                ELSE self1.schedule_for_day
                h1 == Append(h, activity)
                h2 == Append(h1, set_location_tracker(
                                     clone(activity, "invitation", "clone", Human), Len(h1)))
                stored(g, self3, u) ==
                    Outcome(g, [self3 EXCEPT !.backing_schedule = u.rd],
                            IF u.exc = "none" THEN "True" ELSE "None", u.exc)
                accept(g, self3, schedule) ==
                    stored(g, self3, _update_backing_schedule(g, self3, schedule))
                spliced(m) ==
                    IF m.exc # "none" THEN Outcome(m.heap, self1, "None", m.exc)
                    ELSE IF ~m.valid THEN Outcome(h, self1, "False", "none")
                    ELSE
                    LET self2 == [self1 EXCEPT !.invitation.accepted = @ \cup {today}]
                    IN  accept(m.heap,
                               IF update_next_schedule
                               THEN [self2 EXCEPT !.full_schedule[1] = m.schedule]
                               ELSE [self2 EXCEPT !.schedule_for_day = m.schedule],
                               m.schedule)
            IN  spliced(_modify_schedule(h2, Human, remaining_schedule, Len(h2), new_schedule))

\* min(conf['INFECTION_DURATION'], conf['MIN_MESSAGE_PASSING_DURATION']), in
\* grid steps
MIN_DURATION == 1

\* _can_send_invite
_can_send_invite(today, mobility_planner, quarantining) ==
    _can_accept_invite(today, mobility_planner, quarantining)

\* InteractivePlanner.send_social_invites with invite() inlined.  group: the
\* known connections whose receive() returned True
send_social_invites(h, self, timestamp, quarantining, group) ==
    LET today == date(timestamp)
        all_activities == <<self.current_activity>> \o self.schedule_for_day
                             \o (IF Len(self.full_schedule) = 0 THEN <<>>
                                 ELSE self.full_schedule[1])
        Todays(x) == date(h[x].start_time) = today \/ date(end_time(h[x])) = today
        Social(x) == h[x].name = "socialize"
        socials == SelectSeq(SelectSeq(all_activities, Todays), Social)
    IN  IF ~_can_send_invite(today, self, quarantining) THEN Outcome(h, self, "None", "none")
        ELSE IF ~(Len(socials) <= 1) THEN Outcome(h, self, "None", "AssertionError")
        ELSE IF socials # <<>> /\ h[socials[1]].duration >= MIN_DURATION
        THEN Outcome([h EXCEPT ![socials[1]].rsvp = group],
                     [self EXCEPT !.invitation.sent = @ \cup {today}], "None", "none")
        ELSE Outcome(h, self, "None", "none")

\* the planner before initialize() ran
PlannerIdle ==
    /\ heap = <<>>
    /\ mp = MobilityPlanner
    /\ now = t0
    /\ pc = "constructed"
    /\ res = [op |-> "init", ret |-> "None", exc |-> "none"]

\* the loop of _patch_kid_schedule over candidate_activities[i..]: each adult
\* activity is copied (or aligned) into a new object that points to it
RECURSIVE _patch_kid_schedule_loop(_, _, _, _)
_patch_kid_schedule_loop(b, candidate_activities, max_awake_duration, i) ==
    IF i > Len(candidate_activities) \/ b.exc # "none" THEN b
    ELSE
    LET activity == candidate_activities[i]
        a == b.h[activity]
        l == b.h[b.last]
    IN  IF end_time(a) <= end_time(l)
        THEN _patch_kid_schedule_loop(b, candidate_activities, max_awake_duration, i + 1)
        ELSE
        LET aligned == a.start_time < end_time(l) /\ end_time(l) < end_time(a)
            x == IF aligned THEN align(a, l, TRUE, "supervised", Human)
                 ELSE clone(a, "supervised", "clone", Human)
            h1 == Append(b.h, set_location_tracker(x, activity))
            new_activity == Len(h1)
            after(c) == IF c.exc # "none" \/ c.awake > max_awake_duration THEN c
                        ELSE _patch_kid_schedule_loop(c, candidate_activities,
                                                      max_awake_duration, i + 1)
        IN  IF aligned /\ x.duration < 0 THEN [b EXCEPT !.exc = "AssertionError"]
            ELSE after(_add_to_the_schedule(h1, b.schedule, new_activity, b.last, b.awake))

\* the ids of s whose activity ends after end_after, in the order of s
RECURSIVE FilterIds(_, _, _)
FilterIds(s, end_after, h) ==
    IF s = <<>> THEN <<>>
    ELSE IF end_time(h[Head(s)]) > end_after
    THEN <<Head(s)>> \o FilterIds(Tail(s), end_after, h)
    ELSE FilterIds(Tail(s), end_after, h)

\* _patch_kid_schedule: [h, schedule, exc]; self is human.mobility_planner,
\* work_activity is None or an id, max_awake_duration, awake and sleep are
\* the durations the sampler draws
_patch_kid_schedule(h, self, work_start_time, adult_schedule, work_activity, current_activity, max_awake_duration, awake, sleep) ==
    LET fail(g, e) == Building(g, <<>>, current_activity, 0, e)
        cur == h[current_activity]
    IN  IF cur.name # "sleep" THEN fail(h, "AssertionError")
        ELSE IF h[adult_schedule[Len(adult_schedule)]].name # "sleep" THEN fail(h, "AssertionError")
        ELSE IF ~(\A i \in 1..Len(adult_schedule) : end_time(h[adult_schedule[i]]) > cur.start_time)
        THEN fail(h, "AssertionError")
        ELSE IF ~(\E i \in 1..Len(adult_schedule) : h[adult_schedule[i]].start_time > end_time(cur))
        THEN fail(h, "AssertionError")
        ELSE
        LET worked ==
                IF /\ work_activity # None
                   /\ self.hospitalization_timestamp = None
                   /\ self.critical_condition_timestamp = None
                   /\ self.death_timestamp = None
                THEN LET h1 == [h EXCEPT ![work_activity].start_time =
                                    _get_datetime_for_seconds_since_midnight(
                                        work_start_time, h[work_activity].tentative_date)]
                         c == IF h1[work_activity].start_time < end_time(h1[current_activity])
                              THEN _make_hard_changes_to_activity_for_scheduling(
                                       h1, work_activity, current_activity, TRUE)
                              ELSE [h |-> h1, exc |-> "none"]
                     IN  IF c.exc # "none" THEN fail(c.h, c.exc)
                         ELSE _add_to_the_schedule(c.h, <<>>, work_activity, current_activity, 0)
                ELSE Building(h, <<>>, current_activity, 0, "none")
            copied(b) ==
                IF b.exc # "none" THEN b
                ELSE _patch_kid_schedule_loop(
                         b, FilterIds(adult_schedule, end_time(b.h[b.last]), b.h),
                         max_awake_duration, 1)
            closed(b) ==
                IF b.exc # "none" THEN b
                ELSE _add_sleep_to_schedule(b.h, b.schedule, current_activity, b.last, b.awake,
                                            max_awake_duration, awake, sleep)
            hospitalized(b) ==
                IF b.exc # "none" \/ self.location_of_hospitalization = "None"
                   \/ b.schedule = <<>>
                THEN b
                ELSE [b EXCEPT !.h[b.schedule[1]].location = self.location_of_hospitalization,
                               !.exc = "AttributeError"]
            aligned(b) ==
                IF b.exc # "none" THEN b
                ELSE LET full_schedule == <<current_activity>> \o b.schedule
                     IN  IF \A i \in 1..(Len(full_schedule) - 1) :
                                end_time(b.h[full_schedule[i]]) = b.h[full_schedule[i + 1]].start_time
                         THEN b ELSE [b EXCEPT !.exc = "AssertionError"]
        IN  aligned(hospitalized(closed(copied(worked))))

\* ------------------------------------------------------------------------
\* SpecRD: a RangeDict under arbitrary inserts and deletes
\* ------------------------------------------------------------------------
RDValues == {"u", "v"}

RDIdle == rd = RangeDict /\ rdres = [op |-> "init", key |-> <<0, 0>>, exc |-> "none", out |-> <<>>]

\* no schedule-building call is under study, and no city
FnIdle == fin = [fn |-> "none"] /\ fout = [done |-> FALSE]
CityIdle == city = <<>> /\ planners = <<>>

MSIdle ==
    /\ msin = [heap |-> <<>>, remaining_schedule |-> <<>>, new_activity |-> 0, new_schedule |-> <<>>]
    /\ msout = [done |-> FALSE, heap |-> <<>>, schedule |-> <<>>, valid |-> FALSE, exc |-> "none"]

\* rd[(s, e)] = v
RDInsert ==
    \E s \in 0..MaxKey, e \in 0..MaxKey, v \in RDValues :
        LET r == __setitem__(rd, <<s, e>>, v)
        IN  /\ rd' = r.rd
            /\ rdres' = [op |-> "insert", key |-> <<s, e>>, exc |-> r.exc, out |-> <<>>]

\* del rd[p]
RDDelete ==
    \E p \in 0..MaxKey :
        LET r == __delitem__(rd, p)
        IN  /\ rd' = r.rd
            /\ rdres' = [op |-> "delete", key |-> <<p, p>>, exc |-> r.exc, out |-> <<>>]

\* del rd[(s, e)]
RDDeleteRange ==
    \E s \in 0..MaxKey, e \in 0..MaxKey :
        LET r == __delitem__tuple(rd, <<s, e>>)
        IN  /\ s < e
            /\ rd' = r.rd
            /\ rdres' = [op |-> "delete_range", key |-> <<s, e>>, exc |-> r.exc, out |-> <<>>]

\* rd[p]: out holds the value returned
RDLookup ==
    \E p \in 0..MaxKey :
        LET r == __getitem__(rd, p)
        IN  /\ rd' = rd
            /\ rdres' = [op |-> "lookup", key |-> <<p, p>>, exc |-> r.exc,
                         out |-> IF r.exc = "none" THEN <<r.value>> ELSE <<>>]

\* rd.get_range(start, end) with start <= end: out holds the list returned
RDGetRange ==
    \E s \in 0..MaxKey, e \in 0..MaxKey :
        /\ s <= e
        /\ rd' = rd
        /\ rdres' = [op |-> "get_range", key |-> <<s, e>>, exc |-> "none",
                     out |-> get_range(rd, s, TRUE, e)]

InitRD == RDIdle /\ MSIdle /\ PlannerIdle /\ FnIdle /\ CityIdle
NextRD == (RDInsert \/ RDDelete \/ RDDeleteRange \/ RDLookup \/ RDGetRange) /\ UNCHANGED <<msVars, plannerVars, fnVars, cityVars>>
SpecRD == InitRD /\ [][NextRD]_vars

\* the closed-open intervals k and q share a point
Intersects(k, q) == k[1] < q[2] /\ q[1] < k[2]

\* C3: after any sequence of accepted inserts and deletes the stored intervals
\* are pairwise disjoint and the forward lookup table lists exactly them in
\* ascending start order.
C3_DisjointSorted ==
    /\ \A k \in DOMAIN rd.store, q \in DOMAIN rd.store : k # q => ~Intersects(k, q)
    /\ {rd.FLUT[i] : i \in 1..Len(rd.FLUT)} = DOMAIN rd.store
    /\ Len(rd.FLUT) = Cardinality(DOMAIN rd.store)
    /\ \A i \in 1..(Len(rd.FLUT) - 1) : rd.FLUT[i][1] < rd.FLUT[i + 1][1]

\* a delete was accepted and left two stored intervals, the first of which
\* ends where the second starts
C3_Witness ==
    /\ rdres.op = "delete" /\ rdres.exc = "none"
    /\ Len(rd.FLUT) = 2
    /\ rd.FLUT[1][2] = rd.FLUT[2][1]

\* C4: an insert of (start, end) is rejected exactly when start >= end or
\* [start, end) intersects a stored interval (touching at an endpoint is
\* accepted), and a rejected insert leaves store and both tables unchanged.
C4_RejectIffOverlap ==
    [][rdres'.op = "insert" =>
         LET k == rdres'.key
             rejected == rdres'.exc # "none"
         IN  /\ rejected <=> (k[1] >= k[2] \/ \E q \in DOMAIN rd.store : Intersects(k, q))
             /\ rejected => rd' = rd
             /\ ~rejected => DOMAIN rd'.store = DOMAIN rd.store \cup {k}]_vars

\* an accepted insert that touches stored intervals on both sides
C4_Witness ==
    /\ rdres.op = "insert" /\ rdres.exc = "none"
    /\ \E q \in DOMAIN rd.store : q[2] = rdres.key[1]
    /\ \E q \in DOMAIN rd.store : q[1] = rdres.key[2]

\* ------------------------------------------------------------------------
\* SpecMS: _modify_schedule on every small aligned input
\* ------------------------------------------------------------------------
\* the kinds of the entries before the closing sleep ("work" and "sleep" are
\* the only names _modify_schedule reads)
MSKinds == {"idle", "work"}
\* durations of the entries, and of the activity to fit in
MSEntryDurs == {1, 2}
MSNewDurs == {1, 2, 3}
\* end of remaining_schedule[-1], where new_schedule starts
MSBoundary == 2

\* the suffix schedules: contiguous from MSBoundary, positive durations,
\* at most one work, a closing sleep
MSEntries(n) == [1..n -> MSKinds \X MSEntryDurs]
MSOneWork(es) == Cardinality({i \in DOMAIN es : es[i][1] = "work"}) <= 1

RECURSIVE MSStart(_, _)
MSStart(es, i) == IF i = 1 THEN MSBoundary ELSE MSStart(es, i - 1) + es[i - 1][2]

\* heap: 1 = remaining_schedule[-1], 2 = new_activity, 3.. = new_schedule
MSInput(es, sd, s, d) ==
    LET n == Len(es)
        sched == [i \in 1..(n + 1) |->
                    IF i <= n
                    THEN Activity(MSStart(es, i), es[i][2], es[i][1], "household", "B", None, "", "")
                    ELSE Activity(MSStart(es, i), sd, "sleep", "household", "B", None, "", "")]
        new == set_location_tracker(
                   clone(Activity(s, d, "socialize", "None", "A", None, "", ""),
                         "invitation", "clone", "B"), 0)
    IN  [heap |-> <<Activity(0, MSBoundary, "sleep", "household", "B", None, "", ""), new>> \o sched,
         remaining_schedule |-> <<1>>,
         new_activity |-> 2,
         new_schedule |-> [i \in 1..(n + 1) |-> i + 2]]

InitMS ==
    /\ RDIdle
    /\ PlannerIdle
    /\ FnIdle
    /\ CityIdle
    /\ \E n \in 0..MaxSchedLen : \E es \in MSEntries(n) : \E sd \in MSEntryDurs :
         \E s \in 0..(MSBoundary + 2 * (MaxSchedLen + 1)), d \in MSNewDurs :
            /\ MSOneWork(es)
            /\ msin = MSInput(es, sd, s, d)
    /\ msout = [done |-> FALSE, heap |-> <<>>, schedule |-> <<>>, valid |-> FALSE, exc |-> "none"]

MSApply ==
    /\ ~msout.done
    /\ LET returned(r) == [done |-> TRUE, heap |-> r.heap, schedule |-> r.schedule,
                           valid |-> r.valid, exc |-> r.exc]
       IN  msout' = returned(_modify_schedule(msin.heap, Human, msin.remaining_schedule,
                                              msin.new_activity, msin.new_schedule))
    /\ UNCHANGED <<msin, rdVars, plannerVars, fnVars, cityVars>>

NextMS == MSApply
SpecMS == InitMS /\ [][NextMS]_vars

\* ------------------------------------------------------------------------
\* Spec: one planner driven by its human (get_next_activity when the current
\* activity ends) and by proposers of socials (receive)
\* ------------------------------------------------------------------------
\* the durations drawn for one day of the presampled schedule
DayDraws ==
    [work : WorkDurs, socialize : SocializeDurs, grocery : GroceryDurs,
     exercise : ExerciseDurs, awake : AwakeDurs, sleep : SleepDurs]

\* the durations a proposed social can have
InviteDurs == {1, 2}

\* the method op returned or raised outcome o; a planner that returned is at
\* position next, an uncaught exception ends the run
Done(op, next, o) ==
    /\ heap' = o.h
    /\ mp' = o.mp
    /\ pc' = IF o.exc = "none" THEN next ELSE "halted"
    /\ res' = [op |-> op, ret |-> o.ret, exc |-> o.exc]

\* mobility_planner.initialize()
Initialize ==
    /\ pc = "constructed"
    /\ \E is_kid \in BOOLEAN, has_adults \in BOOLEAN, work_start_time \in WorkStartTimes,
          days \in [1..(simulation_days + 1) -> DayDraws] :
          Done("initialize", "initialized",
               initialize(heap, mp, is_kid, has_adults, work_start_time, days))
    /\ UNCHANGED <<now, rdVars, msVars, fnVars, cityVars>>

\* the human asks for its next activity: first when the simulation starts,
\* then whenever the current activity has ended; a dead human asks no more.
\* A supervised kid's day rollover reads the planner of an adult and is not
\* part of this model.
GetNextActivity ==
    /\ pc \in {"initialized", "running"}
    /\ now < end_time_of_simulation
    /\ mp.death_timestamp = None
    /\ pc = "running" => now = end_time(heap[mp.current_activity])
    /\ ~(mp.follows_adult_schedule /\ mp.schedule_for_day = <<>>)
    /\ \E env \in HealthInputs : Done("get_next_activity", "running", get_next_activity(heap, mp, now, env))
    /\ UNCHANGED <<now, rdVars, msVars, fnVars, cityVars>>

\* what the environment decides when an invitation arrives: the human is
\* quarantining, or the acceptance draw fails, or it succeeds
ReceiveInputs ==
    {[quarantining |-> TRUE, accept_roll |-> TRUE],
     [quarantining |-> FALSE, accept_roll |-> FALSE],
     [quarantining |-> FALSE, accept_roll |-> TRUE]}

\* a proposer's invite(activity, connections) reaches this planner;
\* send_social_invites proposes a social of the current day, and invite()
\* puts the human into activity.rsvp when its receive() returned True
Receive ==
    /\ pc \in {"initialized", "running"}
    /\ now < end_time_of_simulation
    /\ \E s \in 0..(SECONDS_PER_DAY - 1), d \in InviteDurs, env \in ReceiveInputs :
          LET start_time == _get_datetime_for_seconds_since_midnight(s, date(now))
              activity == Activity(start_time, d, "socialize", "None", Proposer, date(now), "", "")
              invited(o) == IF o.ret = "True"
                            THEN [o EXCEPT !.h[Len(heap) + 1].rsvp = @ \cup {Human}]
                            ELSE o
          IN  Done("receive", pc,
                   invited(receive(heap, mp, activity, now, env.quarantining,
                                   env.accept_roll)))
    /\ UNCHANGED <<now, rdVars, msVars, fnVars, cityVars>>

\* the human sends the invitations for today's social, once per day at
\* midnight
SendSocialInvites ==
    /\ pc \in {"initialized", "running"}
    /\ now < end_time_of_simulation
    /\ _get_seconds_since_midnight(now) = 0
    /\ \E quarantining \in BOOLEAN, group \in SUBSET {Proposer} :
          Done("send_social_invites", pc,
               send_social_invites(heap, mp, now, quarantining, group))
    /\ UNCHANGED <<now, rdVars, msVars, fnVars, cityVars>>

\* simulated time advances to the next midnight or to the end of the current
\* activity, whichever comes first (a dead human has no next activity)
Tick ==
    /\ pc = "running"
    /\ now < end_time_of_simulation
    /\ LET midnight == (date(now) + 1) * SECONDS_PER_DAY
           ends == end_time(heap[mp.current_activity])
       IN  \/ now < ends /\ now' = Min(ends, midnight)
           \/ mp.death_timestamp # None /\ now >= ends /\ now' = midnight
    /\ res' = [op |-> "tick", ret |-> "None", exc |-> "none"]
    /\ UNCHANGED <<heap, mp, pc, rdVars, msVars, fnVars, cityVars>>

\* mobility_planner.get_schedule(for_kids): the planner itself, or the planner
\* of a kid of the household, reads the schedule.  A supervised kid's own
\* day rollover is not part of this model
GetSchedule ==
    /\ pc \in {"initialized", "running"}
    /\ now < end_time_of_simulation
    /\ \E for_kids \in BOOLEAN :
          LET returned(s) == Outcome(heap, s.mp, "schedule", s.exc)
          IN  /\ ~for_kids => ~(mp.follows_adult_schedule /\ mp.schedule_for_day = <<>>)
              /\ Done(IF for_kids THEN "get_schedule_for_kids" ELSE "get_schedule", pc,
                      returned(IF for_kids THEN get_schedule_for_kids(heap, mp)
                               ELSE get_schedule(heap, mp, now)))
    /\ UNCHANGED <<now, rdVars, msVars, fnVars, cityVars>>

Init == RDIdle /\ MSIdle /\ PlannerIdle /\ FnIdle /\ CityIdle
Next == Initialize \/ GetNextActivity \/ Receive \/ SendSocialInvites \/ Tick
Spec == Init /\ [][Next]_vars

\* ------------------------------------------------------------------------
\* SpecLong: the simulation of an adult under conf['simulation_days'] = 2, so
\* that a midnight follows a day on which invitations arrived
\* ------------------------------------------------------------------------
simulation_days_long == 2
end_time_of_long_simulation == t0 + simulation_days_long * SECONDS_PER_DAY

LongInitialize ==
    /\ pc = "constructed"
    /\ \E work_start_time \in WorkStartTimes,
          days \in [1..(simulation_days_long + 1) -> DayDraws] :
          Done("initialize", "initialized",
               initialize(heap, mp, FALSE, FALSE, work_start_time, days))
    /\ UNCHANGED <<now, rdVars, msVars, fnVars, cityVars>>

LongGetNextActivity ==
    /\ pc \in {"initialized", "running"}
    /\ now < end_time_of_long_simulation
    /\ pc = "running" => now = end_time(heap[mp.current_activity])
    /\ Done("get_next_activity", "running", get_next_activity(heap, mp, now, Healthy))
    /\ UNCHANGED <<now, rdVars, msVars, fnVars, cityVars>>

LongReceive ==
    /\ pc \in {"initialized", "running"}
    /\ now < end_time_of_long_simulation
    /\ \E s \in 0..(SECONDS_PER_DAY - 1), d \in InviteDurs, env \in ReceiveInputs :
          LET start_time == _get_datetime_for_seconds_since_midnight(s, date(now))
              activity == Activity(start_time, d, "socialize", "None", Proposer, date(now), "", "")
              invited(o) == IF o.ret = "True"
                            THEN [o EXCEPT !.h[Len(heap) + 1].rsvp = @ \cup {Human}]
                            ELSE o
          IN  Done("receive", pc,
                   invited(receive(heap, mp, activity, now, env.quarantining,
                                   env.accept_roll)))
    /\ UNCHANGED <<now, rdVars, msVars, fnVars, cityVars>>

LongSendSocialInvites ==
    /\ pc \in {"initialized", "running"}
    /\ now < end_time_of_long_simulation
    /\ _get_seconds_since_midnight(now) = 0
    /\ \E quarantining \in BOOLEAN, group \in SUBSET {Proposer} :
          Done("send_social_invites", pc,
               send_social_invites(heap, mp, now, quarantining, group))
    /\ UNCHANGED <<now, rdVars, msVars, fnVars, cityVars>>

LongTick ==
    /\ pc = "running"
    /\ now < end_time_of_long_simulation
    /\ LET midnight == (date(now) + 1) * SECONDS_PER_DAY
           ends == end_time(heap[mp.current_activity])
       IN  now < ends /\ now' = Min(ends, midnight)
    /\ res' = [op |-> "tick", ret |-> "None", exc |-> "none"]
    /\ UNCHANGED <<heap, mp, pc, rdVars, msVars, fnVars, cityVars>>

NextLong ==
    \/ LongInitialize \/ LongGetNextActivity \/ LongReceive \/ LongSendSocialInvites
    \/ LongTick
SpecLong == Init /\ [][NextLong]_vars

\* the same simulation with readers of the schedule between the steps
NextGS == Next \/ GetSchedule
SpecGS == Init /\ [][NextGS]_vars

\* ------------------------------------------------------------------------
\* SpecSI: the planner of Spec, whose schedule is also edited through
\* scheduling_interface
\* ------------------------------------------------------------------------
\* the position in a sequence of index i of a Python list (negative indexes
\* count from the end), 0 where the list raises IndexError
PyIndex(seq, i) ==
    LET k == IF i < 0 THEN Len(seq) + i + 1 ELSE i + 1
    IN  IF k \in 1..Len(seq) THEN k ELSE 0

\* the slice seq[i:] of a Python list
PySliceFrom(seq, i) ==
    LET k == IF i < 0 THEN (IF Len(seq) + i < 0 THEN 0 ELSE Len(seq) + i)
             ELSE Min(i, Len(seq))
    IN  SubSeq(seq, k + 1, Len(seq))

\* Activity.adjust_time(seconds, start)
adjust_time(a, seconds, start) ==
    IF start THEN [a EXCEPT !.start_time = @ + seconds, !.duration = @ - seconds]
    ELSE [a EXCEPT !.duration = @ + seconds]

\* scheduling_interface.in_past
in_past(timestamp, activity) == end_time(activity) < timestamp

\* scheduling_interface.in_present
in_present(timestamp, activity) ==
    activity.start_time < timestamp /\ timestamp < end_time(activity)

\* scheduling_interface.can_edit
can_edit(self, timestamp, activity) ==
    ~(\/ in_past(timestamp, activity)
      \/ in_present(timestamp, activity)
      \/ activity.name = "sleep"
      \/ self.follows_adult_schedule)

\* InteractivePlanner.update_schedule.  The insertion loop inserts into the
\* list it iterates over: once an event of the stripped schedule ends at or
\* before the start of an activity, every later step finds that same event
\* again and the list grows until memory is exhausted (MemoryError); when no
\* event does, nothing is inserted
update_schedule(h, self, activities, timestamp) ==
    LET first == h[activities[1]]
        last == h[activities[Len(activities)]]
        today == PyIndex(self.sleep_schedule, self.schedule_day)
        later == PySliceFrom(self.sleep_schedule, self.schedule_day - 1)
        matches == {i \in 1..Len(later) :
                        /\ h[later[1]].start_time < first.start_time
                        /\ first.start_time <= h[later[i]].start_time}
        target_day(current) ==
            IF current THEN -1 ELSE CHOOSE i \in matches : \A j \in matches : j <= i
        stripped(schedule) ==
            SelectSeq(schedule, LAMBDA a : ~(/\ h[a].start_time >= first.start_time
                                             /\ h[a].start_time < end_time(last)))
        grows(schedule) ==
            \E i \in 1..Len(activities), j \in 1..Len(schedule) :
                h[activities[i]].start_time >= end_time(h[schedule[j]])
        assigned(current, schedule, store) ==
            IF grows(schedule) THEN Outcome(h, [self EXCEPT !.backing_schedule = store],
                                            "None", "MemoryError")
            ELSE IF current
            THEN Outcome(h, [self EXCEPT !.backing_schedule = store,
                                         !.schedule_for_day = schedule], "None", "none")
            ELSE Outcome(h, [self EXCEPT !.backing_schedule = store,
                                         !.full_schedule[target_day(FALSE)] = schedule],
                         "None", "none")
        updated(u) ==
            IF u.exc # "none"
            THEN Outcome(h, [self EXCEPT !.backing_schedule = u.rd], "None", u.exc)
            ELSE IF today = 0
            THEN Outcome(h, [self EXCEPT !.backing_schedule = u.rd], "None", "IndexError")
            ELSE IF first.start_time < end_time(h[self.sleep_schedule[today]])
            THEN assigned(TRUE, stripped(self.schedule_for_day), u.rd)
            ELSE IF \E i \in matches : i > Len(self.full_schedule)
            THEN Outcome(h, [self EXCEPT !.backing_schedule = u.rd], "None", "IndexError")
            ELSE IF matches = {}
            THEN Outcome(h, [self EXCEPT !.backing_schedule = u.rd], "None",
                         "UnboundLocalError")
            ELSE assigned(FALSE, stripped(self.full_schedule[target_day(FALSE)]), u.rd)
    IN  IF ~(first.start_time > timestamp) THEN Outcome(h, self, "None", "AssertionError")
        ELSE updated(_update_backing_schedule(h, self, activities))

\* scheduling_interface.adjust_end_time(human, activity, new_end_time), with
\* activity an object of the heap.  adjust_time changes the object in place
\* before update_schedule is called
adjust_end_time(h, self, activity, new_end_time, timestamp) ==
    LET a == h[activity]
        store == self.backing_schedule
        edited(g, edits) ==
            LET u == update_schedule(g, self, edits, timestamp)
            IN  Outcome(u.h, u.mp, IF u.exc = "none" THEN "True" ELSE "None", u.exc)
        shared(g, following, delta) ==
            LET g1 == [g EXCEPT ![activity] = adjust_time(@, delta, FALSE)]
                g2 == Append(g1, adjust_time(clone(g[following], "clone", "clone",
                                                   g[following].owner), delta, TRUE))
            IN  edited(g2, <<activity, Len(g2)>>)
        later(range) ==
            IF range = <<>> THEN Outcome(h, self, "None", "IndexError")
            ELSE
            LET following == range[Len(range)]
            IN  IF h[following].name # "idle" THEN Outcome(h, self, "False", "none")
                ELSE IF new_end_time >= end_time(h[following])
                THEN edited([h EXCEPT ![activity] =
                                 adjust_time(@, end_time(h[following]) - end_time(a), FALSE)],
                            <<activity>>)
                ELSE shared(h, following, new_end_time - end_time(a))
        earlier(range) ==
            IF range = <<>> THEN Outcome(h, self, "None", "IndexError")
            ELSE
            LET following == range[Len(range)]
            IN  IF h[following].name = "idle"
                THEN shared(h, following, new_end_time - end_time(a))
                ELSE
                LET g1 == [h EXCEPT ![activity] =
                               adjust_time(@, new_end_time - end_time(a), FALSE)]
                    g2 == Append(g1, Activity(new_end_time, end_time(a) - new_end_time,
                                              "idle", "household", Human, None, "", ""))
                IN  edited(g2, <<activity, Len(g2)>>)
    IN  IF ~can_edit(self, timestamp, a) THEN Outcome(h, self, "False", "none")
        ELSE IF new_end_time <= a.start_time THEN Outcome(h, self, "False", "none")
        ELSE IF new_end_time = end_time(a) THEN Outcome(h, self, "False", "none")
        ELSE IF end_time(a) < new_end_time
        THEN later(get_range(store, a.start_time, TRUE, end_time(a)))
        ELSE earlier(get_range(store, end_time(a), TRUE, end_time(a)))

\* the user of the interface moves the end of an activity of the schedule it
\* is shown (current activity, rest of the day, next day) by one grid step
AdjustEndTime ==
    /\ pc = "running"
    /\ now < end_time_of_simulation
    /\ mp.death_timestamp = None
    /\ LET shown == <<mp.current_activity>> \o mp.schedule_for_day
       IN  \E i \in 1..Len(shown), delta \in {-1, 1} :
              Done("adjust_end_time", pc,
                   adjust_end_time(heap, mp, shown[i],
                                   end_time(heap[shown[i]]) + delta, now))
    /\ UNCHANGED <<now, rdVars, msVars, fnVars, cityVars>>

NextSI == Next \/ AdjustEndTime
SpecSI == Init /\ [][NextSI]_vars

\* ------------------------------------------------------------------------
\* scheduling_interface: the other mutators
\* ------------------------------------------------------------------------
\* scheduling_interface.update_location; is_open is location.is_open(date)
update_location(h, self, activity, location, is_open, timestamp) ==
    LET a == h[activity]
        oc == OPEN_CLOSE_TIMES[location]
    IN  IF ~can_edit(self, timestamp, a) THEN Outcome(h, self, "False", "none")
        ELSE IF /\ is_open
                /\ oc[1] <= _get_seconds_since_midnight(a.start_time)
                /\ _get_seconds_since_midnight(end_time(a)) <= oc[2]
        THEN Outcome([h EXCEPT ![activity].location = location], self, "True", "none")
        ELSE Outcome(h, self, "False", "none")

\* scheduling_interface.cancel_activity: Activity has no method
\* cancel_and_go_to_location
cancel_activity(h, self, activity, timestamp) ==
    IF ~can_edit(self, timestamp, h[activity]) THEN Outcome(h, self, "False", "none")
    ELSE Outcome(h, self, "None", "AttributeError")

\* scheduling_interface.delete_activity: the same missing method is called
\* before anything is changed
delete_activity(h, self, activity, timestamp) ==
    IF ~can_edit(self, timestamp, h[activity]) THEN Outcome(h, self, "False", "none")
    ELSE IF h[activity].name = "idle" THEN Outcome(h, self, "False", "none")
    ELSE Outcome(h, self, "None", "AttributeError")

\* the index of x in the list s, counted from 0, or None
IndexOf(x, s) ==
    IF InSeq(x, s) THEN (CHOOSE i \in 1..Len(s) : s[i] = x /\ \A j \in 1..(i - 1) : s[j] # x) - 1
    ELSE None

\* scheduling_interface.adjust_start_time(human, activity, new_start_time)
adjust_start_time(h, self, activity, new_start_time, timestamp) ==
    LET a == h[activity]
        store == self.backing_schedule
        edited(g, edits) ==
            LET u == update_schedule(g, self, edits, timestamp)
            IN  Outcome(u.h, u.mp, IF u.exc = "none" THEN "True" ELSE "None", u.exc)
        back(range) ==
            IF range = <<>> THEN Outcome(h, self, "None", "IndexError")
            ELSE
            LET preceeding_activity == range[1]
                delta == new_start_time - a.start_time
                first == IF /\ h[preceeding_activity].name = "idle"
                            /\ preceeding_activity # self.current_activity
                         THEN adjust_time(clone(h[preceeding_activity], "clone", "clone",
                                                h[preceeding_activity].owner), delta, FALSE)
                         ELSE Activity(a.start_time, delta, "idle", "household", Human,
                                       None, "", "")
                g1 == Append(h, first)
                g2 == [g1 EXCEPT ![activity] = adjust_time(@, delta, TRUE)]
            IN  edited(g2, <<Len(g1), activity>>)
        forward(coverage) ==
            LET act_index == IndexOf(activity, coverage)
            IN  IF act_index = None THEN Outcome(h, self, "None", "TypeError")
                ELSE
                LET before == coverage[PyIndex(coverage, act_index - 1)]
                    b == h[before]
                IN  IF ~(b.name = "idle" /\ before # self.current_activity)
                    THEN Outcome(h, self, "False", "none")
                    ELSE IF b.start_time >= new_start_time
                    THEN edited([h EXCEPT ![activity] =
                                     adjust_time(@, -(a.start_time - b.start_time), TRUE)],
                                <<activity>>)
                    ELSE
                    LET g1 == [h EXCEPT ![activity] =
                                   adjust_time(@, a.start_time - new_start_time, TRUE)]
                        g2 == Append(g1, Activity(b.start_time, end_time(b) - new_start_time,
                                                  "idle", "household", Human, None, "", ""))
                    IN  edited(g2, <<Len(g2), activity>>)
    IN  IF ~can_edit(self, timestamp, a) THEN Outcome(h, self, "False", "none")
        ELSE IF new_start_time >= end_time(a) THEN Outcome(h, self, "False", "none")
        ELSE IF new_start_time = a.start_time THEN Outcome(h, self, "False", "none")
        ELSE IF a.start_time < new_start_time
        THEN back(get_range(store, a.start_time - 1, TRUE, end_time(a)))
        ELSE forward(get_range(store, new_start_time, TRUE, end_time(a)))

\* scheduling_interface.insert_activity(human, activity): the activity is a
\* new object the caller has built
insert_activity(h, self, activity, timestamp) ==
    LET a == h[activity]
        existing_schedule == get_range(self.backing_schedule, a.start_time, TRUE,
                                       end_time(a) - 1)
        refused == {i \in 1..Len(existing_schedule) :
                        \/ h[existing_schedule[i]].name # "idle"
                        \/ ~can_edit(self, timestamp, h[existing_schedule[i]])}
    IN  IF refused # {} THEN Outcome(h, self, "False", "none")
        ELSE IF existing_schedule = <<>> THEN Outcome(h, self, "None", "IndexError")
        ELSE
        LET first == h[existing_schedule[1]]
            last == h[existing_schedule[Len(existing_schedule)]]
            g1 == IF first.start_time < a.start_time
                  THEN Append(h, Activity(first.start_time, a.start_time - first.start_time,
                                          "idle", "household", Human, None, "", ""))
                  ELSE h
            g2 == IF end_time(last) > end_time(a)
                  THEN Append(g1, Activity(end_time(a), end_time(last) - end_time(a),
                                           "idle", "household", Human, None, "", ""))
                  ELSE g1
            edits == (IF Len(g1) > Len(h) THEN <<Len(g1)>> ELSE <<>>) \o <<activity>>
                     \o (IF Len(g2) > Len(g1) THEN <<Len(g2)>> ELSE <<>>)
            u == update_schedule(g2, self, edits, timestamp)
        IN  Outcome(u.h, u.mp, IF u.exc = "none" THEN "True" ELSE "None", u.exc)

\* ------------------------------------------------------------------------
\* SpecEdit: one call of a scheduling_interface mutator on a planner the
\* simulation has brought to some clock value
\* ------------------------------------------------------------------------
\* how many activities the human has gone through before the call
MaxEditSteps == 6

\* the planner after initialize() and n calls of get_next_activity(), each at
\* the end of the activity before
RECURSIVE EditAdvanced(_, _)
EditAdvanced(n, started) ==
    IF n = 0 THEN started
    ELSE LET clock(o) == IF n = 1 THEN t0 ELSE end_time(o.h[o.mp.current_activity])
             step(before) == {get_next_activity(o.h, o.mp, clock(o), Healthy) :
                                 o \in {x \in before : x.exc = "none"}}
         IN  step(EditAdvanced(n - 1, started))

\* the planners initialize() leaves: an adult and a kid who follows an adult
EditStarted ==
    LET days(s) == [d \in 1..(simulation_days + 1) |->
                       [work |-> 2, socialize |-> s, grocery |-> 0,
                        exercise |-> 0, awake |-> 3, sleep |-> 2]]
    IN  {initialize(<<>>, MobilityPlanner, k, k, 3, days(s)) :
            k \in BOOLEAN, s \in SocializeDurs}

\* planners the interface is called on, with the clock anywhere from the start
\* to the end of the current activity
EditPlanners ==
    LET at(reached) ==
            {[h |-> o.h, mp |-> o.mp, timestamp |-> t] :
                o \in {x \in reached : x.exc = "none" /\ x.mp.death_timestamp = None},
                t \in 0..(2 * SECONDS_PER_DAY)}
        running(ps) ==
            {p \in ps : /\ p.h[p.mp.current_activity].start_time <= p.timestamp
                        /\ p.timestamp <= end_time(p.h[p.mp.current_activity])}
    IN  running(at(UNION {EditAdvanced(n, EditStarted) : n \in 1..MaxEditSteps}))

\* the activities get_schedule(human) hands to the caller
EditTargets(p) ==
    {p.mp.backing_schedule.store[k] : k \in DOMAIN p.mp.backing_schedule.store}
        \cup {p.mp.current_activity}

FnEditInputs ==
    LET call(p, fn, a, arg) ==
            [fn |-> fn, h |-> p.h, mp |-> p.mp, timestamp |-> p.timestamp,
             activity |-> a, arg |-> arg]
    IN  UNION {
            {call(p, "update_location", a, <<l, o>>) :
                a \in EditTargets(p), l \in {"misc", "workplace"}, o \in BOOLEAN}
            \cup {call(p, fn, a, <<>>) :
                    a \in EditTargets(p), fn \in {"cancel_activity", "delete_activity"}}
            \cup {call(p, fn, a, <<d>>) :
                    a \in EditTargets(p), fn \in {"adjust_start_time", "adjust_end_time"},
                    d \in {-1, 1}}
            \cup {[call(p, "insert_activity", Len(p.h) + 1, <<>>) EXCEPT
                      !.h = Append(@, Activity(st, d, "socialize", "misc", Human,
                                               None, "", ""))] :
                    st \in p.timestamp..(p.timestamp + 4), d \in 1..2}
            \cup {[call(p, "update_schedule", None,
                        <<Len(p.h) + 1>> \o (IF idle THEN <<Len(p.h) + 2>> ELSE <<>>)) EXCEPT
                      !.h = @ \o <<Activity(st, d, "socialize", "misc", Human, None, "", "")>>
                              \o (IF idle
                                  THEN <<Activity(st + d, 1, "idle", "household", Human,
                                                  None, "", "")>>
                                  ELSE <<>>)] :
                    st \in {p.timestamp + k : k \in {1, 2, 4, 8, 12}}, d \in 1..2,
                    idle \in BOOLEAN}
            : p \in EditPlanners}

\* the outcome of the call
EditReturned(o) == [done |-> TRUE, h |-> o.h, mp |-> o.mp, ret |-> o.ret, exc |-> o.exc]

CallUpdateLocation ==
    /\ fin.fn = "update_location" /\ ~fout.done
    /\ fout' = EditReturned(update_location(fin.h, fin.mp, fin.activity, fin.arg[1],
                                            fin.arg[2], fin.timestamp))
    /\ UNCHANGED <<fin, rdVars, msVars, plannerVars, cityVars>>

CallCancelActivity ==
    /\ fin.fn = "cancel_activity" /\ ~fout.done
    /\ fout' = EditReturned(cancel_activity(fin.h, fin.mp, fin.activity, fin.timestamp))
    /\ UNCHANGED <<fin, rdVars, msVars, plannerVars, cityVars>>

CallAdjustStartTime ==
    /\ fin.fn = "adjust_start_time" /\ ~fout.done
    /\ fout' = EditReturned(adjust_start_time(
                                fin.h, fin.mp, fin.activity,
                                fin.h[fin.activity].start_time + fin.arg[1], fin.timestamp))
    /\ UNCHANGED <<fin, rdVars, msVars, plannerVars, cityVars>>

CallAdjustEndTime ==
    /\ fin.fn = "adjust_end_time" /\ ~fout.done
    /\ fout' = EditReturned(adjust_end_time(
                                fin.h, fin.mp, fin.activity,
                                end_time(fin.h[fin.activity]) + fin.arg[1], fin.timestamp))
    /\ UNCHANGED <<fin, rdVars, msVars, plannerVars, cityVars>>

CallDeleteActivity ==
    /\ fin.fn = "delete_activity" /\ ~fout.done
    /\ fout' = EditReturned(delete_activity(fin.h, fin.mp, fin.activity, fin.timestamp))
    /\ UNCHANGED <<fin, rdVars, msVars, plannerVars, cityVars>>

CallInsertActivity ==
    /\ fin.fn = "insert_activity" /\ ~fout.done
    /\ fout' = EditReturned(insert_activity(fin.h, fin.mp, fin.activity, fin.timestamp))
    /\ UNCHANGED <<fin, rdVars, msVars, plannerVars, cityVars>>

\* InteractivePlanner.update_schedule(activities), the activities being new
\* objects that start after the clock value
CallUpdateSchedule ==
    /\ fin.fn = "update_schedule" /\ ~fout.done
    /\ fout' = EditReturned(update_schedule(fin.h, fin.mp, fin.arg, fin.timestamp))
    /\ UNCHANGED <<fin, rdVars, msVars, plannerVars, cityVars>>

InitEdit ==
    /\ RDIdle /\ MSIdle /\ PlannerIdle /\ CityIdle
    /\ fin \in FnEditInputs
    /\ fout = [done |-> FALSE]
NextEdit ==
    \/ CallUpdateLocation \/ CallCancelActivity \/ CallAdjustStartTime
    \/ CallAdjustEndTime \/ CallDeleteActivity \/ CallInsertActivity
    \/ CallUpdateSchedule
SpecEdit == InitEdit /\ [][NextEdit]_vars

\* the arguments of the call, by name
MSNew == msin.heap[msin.new_activity]
MSLastEnd == end_time(msin.heap[msin.remaining_schedule[Len(msin.remaining_schedule)]])
MSInputEnd == end_time(msin.heap[msin.new_schedule[Len(msin.new_schedule)]])
MSIv(a) == <<a.start_time, end_time(a)>>
\* new_activity's interval shares a point with the work block of new_schedule
MSOverlapsWork ==
    \E i \in 1..Len(msin.new_schedule) :
        /\ msin.heap[msin.new_schedule[i]].name = "work"
        /\ Intersects(MSIv(MSNew), MSIv(msin.heap[msin.new_schedule[i]]))
\* the call returned (deque([]), False) and touched no object
MSRejectedUnchanged ==
    /\ msout.exc = "none" /\ ~msout.valid /\ msout.schedule = <<>>
    /\ msout.heap = msin.heap

\* C7: whenever _modify_schedule returns valid = True, the returned schedule
\* starts at remaining_schedule[-1].end_time, is contiguous, has no negative
\* duration, ends in a sleep and ends when the input new_schedule ended.
C7_ValidResultContiguous ==
    (msout.done /\ msout.valid) =>
        LET g == msout.heap
            sch == msout.schedule
        IN  /\ sch # <<>>
            /\ g[sch[1]].start_time = MSLastEnd
            /\ \A i \in 1..(Len(sch) - 1) : end_time(g[sch[i]]) = g[sch[i + 1]].start_time
            /\ \A i \in 1..Len(sch) : g[sch[i]].duration >= 0
            /\ g[sch[Len(sch)]].name = "sleep"
            /\ end_time(g[sch[Len(sch)]]) = MSInputEnd

\* a valid result in which the closing sleep was cut on the left
C7_Witness ==
    /\ msout.done /\ msout.valid
    /\ msout.heap[msout.schedule[Len(msout.schedule)]].prepend_name = "modified-cut-left"
    /\ \E i \in 1..Len(msout.schedule) :
          msout.heap[msout.schedule[i]].prepend_name = "modified-cut-right"

\* C8 (as claimed): _modify_schedule returns failure without mutating anything
\* whenever new_activity's interval overlaps the work block of the suffix
\* schedule in any way.
C8_RejectsAnyWorkOverlap ==
    (msout.done /\ MSOverlapsWork) => MSRejectedUnchanged

\* C9: a call with new_activity.start_time < remaining_schedule[-1].end_time
\* returns (empty, False) and leaves every activity unchanged.
C9_StartBeforeBoundaryRejected ==
    (msout.done /\ MSNew.start_time < MSLastEnd) => MSRejectedUnchanged

\* new_activity starts before the boundary and ends after it
C9_Witness ==
    /\ msout.done
    /\ MSNew.start_time < MSLastEnd /\ end_time(MSNew) > MSLastEnd
    /\ MSRejectedUnchanged

\* ------------------------------------------------------------------------
\* Claims about the planner (Spec)
\* ------------------------------------------------------------------------
\* [current_activity] + list(schedule_for_day)
CurrentSchedule == <<mp.current_activity>> \o mp.schedule_for_day

\* every entry of the day sequence t is stored in the store under its own
\* (start_time, end_time)
InStore(h, store, t) ==
    \A i \in 1..Len(t) :
        /\ <<h[t[i]].start_time, end_time(h[t[i]])>> \in DOMAIN store.store
        /\ store.store[<<h[t[i]].start_time, end_time(h[t[i]])>>] = t[i]

\* C1 (as claimed): in every state after initialize, [current_activity] +
\* schedule_for_day is contiguous and its last element is a sleep.
C1_CurrentScheduleContiguous ==
    pc \in {"initialized", "running"} =>
        /\ \A i \in 1..(Len(CurrentSchedule) - 1) :
              end_time(heap[CurrentSchedule[i]]) = heap[CurrentSchedule[i + 1]].start_time
        /\ heap[CurrentSchedule[Len(CurrentSchedule)]].name = "sleep"

C5_ReceiveAllOrNothing ==
    [][res'.op = "receive" =>
         /\ res'.ret = "True" =>
               /\ InStore(heap', mp'.backing_schedule, mp'.schedule_for_day)
               /\ mp'.full_schedule # <<>> =>
                     InStore(heap', mp'.backing_schedule, mp'.full_schedule[1])
         /\ res'.ret # "True" =>
               /\ mp'.schedule_for_day = mp.schedule_for_day
               /\ mp'.full_schedule = mp.full_schedule
               /\ mp'.backing_schedule = mp.backing_schedule
               /\ \A i \in 1..Len(heap) : heap'[i] = heap[i]]_vars

\* C6 (as claimed): when receive returns True the receiver's remaining day or
\* next day holds exactly one invitation-tagged socialize of the receiver
\* with the proposed start and end, and its neighbours meet it.
C6_AcceptedInviteInSchedule ==
    [][(res'.op = "receive" /\ res'.ret = "True") =>
         LET proposed == heap'[Len(heap) + 1]
             t == mp'.schedule_for_day
                     \o (IF mp'.full_schedule # <<>> THEN mp'.full_schedule[1] ELSE <<>>)
             Invited(i) ==
                 /\ heap'[t[i]].name = "socialize"
                 /\ heap'[t[i]].prepend_name = "invitation"
                 /\ heap'[t[i]].owner = Human
                 /\ heap'[t[i]].start_time = proposed.start_time
                 /\ end_time(heap'[t[i]]) = end_time(proposed)
         IN  /\ Cardinality({i \in 1..Len(t) : Invited(i)}) = 1
             /\ \A i \in 1..Len(t) : Invited(i) =>
                   /\ i > 1 => end_time(heap'[t[i - 1]]) = proposed.start_time
                   /\ i < Len(t) => heap'[t[i + 1]].start_time = end_time(proposed)]_vars

\* the receiver cannot take an invitation today
C10_Blocked ==
    \/ mp.human_to_rest_at_home
    \/ mp.hospitalization_timestamp # None
    \/ mp.critical_condition_timestamp # None
    \/ mp.death_timestamp # None
    \/ mp.follows_adult_schedule
    \/ date(now) \in mp.invitation.sent \cup mp.invitation.received \cup mp.invitation.accepted

\* C10: receive returns False and changes nothing when the receiver rests at
\* home, is hospitalized, critical, dead, follows an adult's schedule, or has
\* today's date in its sent, received or accepted set.
C10_BlockedReceiveChangesNothing ==
    [][(res'.op = "receive" /\ C10_Blocked) =>
         /\ res'.ret = "False" /\ res'.exc = "none"
         /\ mp' = mp /\ heap' = heap]_vars

\* a dead receiver turned an invitation down
C10_Witness ==
    /\ res.op = "receive" /\ res.ret = "False"
    /\ mp.death_timestamp # None

\* ------------------------------------------------------------------------
\* RangeDict lookups
\* ------------------------------------------------------------------------
\* the stored intervals that hold the point p
Holding(p) == {k \in DOMAIN rd.store : k[1] <= p /\ p < k[2]}

\* C19: a lookup of the point p returns the value of the one stored interval
\* with start <= p < end, and raises the key-not-found error exactly when no
\* stored interval holds p (p at an interval's end, in a gap, or the store
\* empty).
C19_LookupFindsHolder ==
    rdres.op = "lookup" =>
        LET p == rdres.key[1]
        IN  /\ rdres.exc = RangDictKeyException <=> Holding(p) = {}
            /\ rdres.exc = "none" =>
                  /\ Cardinality(Holding(p)) = 1
                  /\ \A k \in Holding(p) : rdres.out = <<rd.store[k]>>

\* a lookup found the second of two touching intervals at the point where
\* they meet, with different values stored for the two
C19_Witness ==
    /\ rdres.op = "lookup" /\ rdres.exc = "none"
    /\ \E k \in DOMAIN rd.store, q \in DOMAIN rd.store :
          /\ k[2] = q[1] /\ q[1] = rdres.key[1]
          /\ rd.store[k] # rd.store[q]
          /\ rdres.out = <<rd.store[q]>>

\* the values of the stored intervals keys, in ascending start order
RECURSIVE AscendingValues(_, _)
AscendingValues(store, keys) ==
    IF keys = {} THEN <<>>
    ELSE LET k == CHOOSE k \in keys : \A q \in keys : k[1] <= q[1]
         IN  <<store[k]>> \o AscendingValues(store, keys \ {k})

\* the stored intervals that share a point with [start, end)
Hits(start, end) ==
    {k \in DOMAIN rd.store : start < end /\ k[1] < end /\ start < k[2]}

\* C20: get_range(start, end) with start <= end returns exactly the values
\* whose stored interval intersects [start, end), in ascending start order,
\* also when start or end lies in a gap, outside the stored span or on an
\* interval boundary.
C20_GetRangeIntersecting ==
    rdres.op = "get_range" =>
        rdres.out = AscendingValues(rd.store, Hits(rdres.key[1], rdres.key[2]))

\* ------------------------------------------------------------------------
\* Negotiation failures
\* ------------------------------------------------------------------------
\* C11: a receive that does not take the invitation (today is not recorded as
\* accepted) has returned False; it has not ended in a failed assertion or
\* another exception.
C11_RejectionReturnsFalse ==
    (res.op = "receive" /\ date(now) \notin mp.invitation.accepted)
        => (res.ret = "False" /\ res.exc = "none")

\* ------------------------------------------------------------------------
\* The presampled schedule
\* ------------------------------------------------------------------------
\* C16: after initialize of an independent human every presampled insertion
\* was accepted (initialize returned) and the intervals of the backing store
\* tile the span from the simulation start to the end of the last stored
\* activity, with no gap and no overlap, for any drawn durations and any work
\* start time.
C16_StoreTilesAfterInitialize ==
    (res.op = "initialize" /\ ~mp.follows_adult_schedule) =>
        LET F == mp.backing_schedule.FLUT
        IN  /\ res.exc = "none"
            /\ F # <<>>
            /\ F[1][1] = t0
            /\ \A i \in 1..(Len(F) - 1) : F[i][2] = F[i + 1][1]
            /\ F[Len(F)][2] >= end_time_of_simulation
            /\ \A i \in 1..Len(F) :
                  /\ heap[mp.backing_schedule.store[F[i]]].start_time = F[i][1]
                  /\ end_time(heap[mp.backing_schedule.store[F[i]]]) = F[i][2]

\* ------------------------------------------------------------------------
\* SpecFn: the schedule-building functions on every small input
\* ------------------------------------------------------------------------
\* latest start and longest duration of the two activities handed to
\* _make_hard_changes_to_activity_for_scheduling
MaxHardStart == 3
MaxHardDur == 3

\* heap of a _make_hard_changes_to_activity_for_scheduling call:
\* 1 = last_activity, 2 = next_activity, which starts before last_activity ends
FnHardInputs ==
    {[fn |-> "_make_hard_changes_to_activity_for_scheduling",
      h |-> <<Activity(ls, ld, "idle", "household", Human, None, "", ""),
              Activity(ns, nd, "sleep", "household", Human, None, "", "")>>,
      keep_last_unchanged |-> k] :
        ls \in 0..MaxHardStart, ld \in 1..MaxHardDur, ns \in 0..(MaxHardStart + MaxHardDur),
        nd \in 0..MaxHardDur, k \in BOOLEAN}

\* what the day's draws and the human's attributes can be when _patch_schedule
\* assembles the day tentative_date = 1: the previous sleep started on day 0
\* or day 1
PatchSleepStarts == 5..9
PatchSleepDurs == {1, 3}
PatchDraws ==
    [work : {0, 2, 4}, socialize : {0, 1, 3}, grocery : {0, 1, 2}, exercise : {0, 1},
     awake : {0, 3, 5}, sleep : {0, 2}]
PatchWorkStarts == {1, 3, 5}

\* heap of a _patch_schedule call: 1 = last_activity, 2..5 = the activities
\* to schedule, in the order initialize appends them
FnPatchInputs ==
    {[fn |-> "_patch_schedule",
      h |-> <<Activity(ss, sd, "sleep", "household", Human, None, "", ""),
              Activity(None, d.work, "work", "workplace", Human, 1, "", ""),
              Activity(None, d.socialize, "socialize", "None", Human, 1, "", ""),
              Activity(None, d.grocery, "grocery", "None", Human, 1, "", ""),
              Activity(None, d.exercise, "exercise", "None", Human, 1, "", "")>>,
      work_start_time |-> ws, awake |-> d.awake, sleep |-> d.sleep] :
        ss \in PatchSleepStarts, sd \in PatchSleepDurs, d \in PatchDraws, ws \in PatchWorkStarts}

\* _make_hard_changes_to_activity_for_scheduling(next_activity, last_activity,
\* keep_last_unchanged)
HardChanges ==
    /\ fin.fn = "_make_hard_changes_to_activity_for_scheduling"
    /\ ~fout.done
    /\ LET returned(r) == [done |-> TRUE, h |-> r.h, exc |-> r.exc]
       IN  fout' = returned(_make_hard_changes_to_activity_for_scheduling(
                                fin.h, 2, 1, fin.keep_last_unchanged))
    /\ UNCHANGED <<fin, rdVars, msVars, plannerVars, cityVars>>

\* _patch_schedule(human, last_activity, activities, conf)
PatchSchedule ==
    /\ fin.fn = "_patch_schedule"
    /\ ~fout.done
    /\ LET returned(r) == [done |-> TRUE, h |-> r.h, schedule |-> r.schedule, exc |-> r.exc]
       IN  fout' = returned(_patch_schedule(fin.h, fin.work_start_time, 1, <<2, 3, 4, 5>>,
                                            fin.awake, fin.sleep))
    /\ UNCHANGED <<fin, rdVars, msVars, plannerVars, cityVars>>

\* Activity.cancel_and_stay_at_location(reason, location): [h, exc]
cancel_and_stay_at_location(h, activity, reason, location) ==
    LET a == h[activity]
        parent == a.parent_activity_pointer
        h1 == [h EXCEPT ![activity].is_cancelled = TRUE,
                        ![activity].append_name = reason,
                        ![activity].location = IF location # "None" THEN location ELSE "household"]
        supervised(g) ==
            IF g.exc # "none" \/ a.prepend_name # "supervised" THEN g
            ELSE IF g.h[activity].parent_activity_pointer = None
            THEN [g EXCEPT !.exc = "AttributeError"]
            ELSE [h |-> [g.h EXCEPT ![parent] = [set_location_tracker(@, activity) EXCEPT
                                                    !.append_name = @ \o "for-kid-stay-at-home"],
                                    ![activity].parent_activity_pointer = None],
                  exc |-> "none"]
    IN  supervised(IF a.name = "socialize" /\ a.prepend_name = "invitation"
                   THEN IF parent = None THEN [h |-> h1, exc |-> "AttributeError"]
                        ELSE IF a.owner \notin h1[parent].rsvp
                        THEN [h |-> h1, exc |-> "AssertionError"]
                        ELSE [h |-> [h1 EXCEPT ![parent].rsvp = @ \ {a.owner},
                                               ![activity].parent_activity_pointer = None],
                              exc |-> "none"]
                   ELSE [h |-> h1, exc |-> "none"])

\* heap of a cancel_and_stay_at_location call: 1 = the activity of another
\* human that activity 2, the one cancelled, may point to.  An invitation
\* points to the proposer's activity, whose rsvp holds the invitee (receive);
\* a supervised activity points to the adult's activity
FnCancelInputs ==
    {[fn |-> "cancel_and_stay_at_location",
      h |-> <<[Activity(2, 2, name, ploc, Proposer, 1, "", "")
                  EXCEPT !.rsvp = IF prepend = "invitation" THEN rsvp ELSE {}],
              [Activity(start, dur, name, loc, Human, 1, prepend, "")
                  EXCEPT !.parent_activity_pointer = IF prepend = "" THEN None ELSE 1]>>,
      reason |-> reason, location |-> location] :
        name \in {"socialize", "work"}, ploc \in {"None", "misc"},
        rsvp \in {{Human}, {Human, "C"}}, start \in 1..3, dur \in 1..2,
        loc \in {"None", "misc"}, prepend \in {"", "invitation", "supervised"},
        reason \in {"sick-rest-at_home", "no-location"},
        location \in {"None", "household", "hospital"}}

\* activity.cancel_and_stay_at_location(reason, location)
CancelAndStay ==
    /\ fin.fn = "cancel_and_stay_at_location"
    /\ ~fout.done
    /\ LET returned(r) == [done |-> TRUE, h |-> r.h, exc |-> r.exc]
       IN  fout' = returned(cancel_and_stay_at_location(fin.h, 2, fin.reason, fin.location))
    /\ UNCHANGED <<fin, rdVars, msVars, plannerVars, cityVars>>

\* ------------------------------------------------------------------------
\* invite(activity, connections): the proposer's side of an invitation
\* ------------------------------------------------------------------------
\* the planner of a connection at the midnight of the first day: initialized,
\* and for some of them already in the first activity
InvitePlanners ==
    LET days(s) == [d \in 1..(simulation_days + 1) |->
                       [work |-> 2, socialize |-> s, grocery |-> 0,
                        exercise |-> 0, awake |-> 3, sleep |-> 2]]
        advanced(started) ==
            {get_next_activity(o.h, o.mp, t0, Healthy) :
                 o \in {x \in started : ~x.mp.follows_adult_schedule}}
        returned(reached) ==
            {[h |-> o.h, mp |-> o.mp] : o \in {x \in reached : x.exc = "none"}}
        either(started) == returned(started \cup advanced(started))
    IN  either({initialize(<<>>, MobilityPlanner, k, k, 3, days(s)) :
                   k \in BOOLEAN, s \in SocializeDurs})

\* the loop of invite() from connection i on.  st.called: the connections
\* whose receive() was called with what it returned; st.group: the set under
\* construction; an exception raised by a receive() leaves the loop
RECURSIVE invite_loop(_, _, _, _, _, _, _)
invite_loop(self_human, activity, connections, timestamp, envs, i, st) ==
    IF i > Len(connections) \/ st.exc # "none" THEN st
    ELSE IF connections[i] = self_human
    THEN invite_loop(self_human, activity, connections, timestamp, envs, i + 1, st)
    ELSE
    LET human == connections[i]
        after(r) ==
            [planners |-> [st.planners EXCEPT ![human] = [h |-> r.h, mp |-> r.mp]],
             called |-> Append(st.called, <<human, r.ret>>),
             group |-> IF r.ret = "True" THEN st.group \cup {human} ELSE st.group,
             exc |-> r.exc]
    IN  invite_loop(self_human, activity, connections, timestamp, envs, i + 1,
                    after(receive(st.planners[human].h, st.planners[human].mp, activity,
                                  timestamp, envs[human].quarantining,
                                  envs[human].accept_roll)))

\* InteractivePlanner.invite.  candidates: the planner of every connection;
\* envs: what the environment decides at each connection's receive()
invite(self_human, activity, connections, candidates, timestamp, envs) ==
    LET start == [planners |-> candidates, called |-> <<>>, group |-> {}, exc |-> "none"]
        returned(st) == [activity |-> IF st.exc = "none" /\ activity.duration >= MIN_DURATION
                                      THEN [activity EXCEPT !.rsvp = st.group]
                                      ELSE activity,
                         planners |-> st.planners, called |-> st.called, exc |-> st.exc]
    IN  IF activity.name # "socialize" THEN returned([start EXCEPT !.exc = "AssertionError"])
        ELSE IF activity.duration < MIN_DURATION THEN returned(start)
        ELSE returned(invite_loop(self_human, activity, connections, timestamp, envs, 1, start))

\* the orders in which connections are listed, with and without the proposer
InviteOrders ==
    {<<Human, "C">>, <<Proposer, "C", Human>>, <<Human, Proposer>>, <<"C">>}

\* the socials a proposer invites to at the midnight of the first day
FnInviteInputs ==
    {[fn |-> "invite",
      activity |-> [Activity(s, d, "socialize", "None", Proposer, date(t0), "", "")
                       EXCEPT !.rsvp = r],
      connections |-> c,
      planners |-> [human \in {Human, "C"} |-> IF human = Human THEN pb ELSE pc2]] :
        s \in {2, 3, 5}, d \in 0..2, r \in {{}, {Human}}, c \in InviteOrders,
        pb \in InvitePlanners, pc2 \in InvitePlanners}

\* one call of invite()
Invite ==
    /\ fin.fn = "invite"
    /\ ~fout.done
    /\ \E envs \in [{Human, "C"} -> ReceiveInputs] :
          LET returned(r) == [done |-> TRUE, activity |-> r.activity, planners |-> r.planners,
                              called |-> r.called, exc |-> r.exc]
          IN  fout' = returned(invite(Proposer, fin.activity, fin.connections, fin.planners,
                                      t0, envs))
    /\ UNCHANGED <<fin, rdVars, msVars, plannerVars, cityVars>>

\* the fields of a kid's planner, and of the kid, that the gate of the
\* supervising adult reads
Kid == [location_of_hospitalization |-> "None", hospitalization_timestamp |-> None,
        critical_condition_timestamp |-> None, quarantining |-> FALSE,
        human_to_rest_at_home |-> FALSE, household |-> "household"]

\* a living kid in inverted supervision: in a hospital, quarantined, resting
\* at home, or none of these
KidStates ==
    {Kid,
     [Kid EXCEPT !.location_of_hospitalization = "hospital", !.hospitalization_timestamp = t0],
     [Kid EXCEPT !.location_of_hospitalization = "hospital-icu",
                 !.hospitalization_timestamp = t0, !.critical_condition_timestamp = t0],
     [Kid EXCEPT !.quarantining = TRUE],
     [Kid EXCEPT !.human_to_rest_at_home = TRUE]}

\* the gate is asked to finalise an activity of an adult, who may supervise kids
FnGateInputs ==
    {[fn |-> "_modify_activity_location_if_needed",
      h |-> <<Activity(t0, 2, name, location, Human, None, "", "")>>,
      mp |-> [MobilityPlanner EXCEPT !.current_activity = 1, !.human_to_rest_at_home = rest],
      env |-> [e EXCEPT !.kids = kids]] :
        name \in {"work", "idle"}, location \in {"None", "misc", "household"},
        rest \in BOOLEAN,
        e \in {Healthy, [Healthy EXCEPT !.rest_roll = TRUE],
                [Healthy EXCEPT !.recovered = TRUE],
                [Healthy EXCEPT !.quarantining = TRUE]},
        kids \in {<<>>} \cup {<<k>> : k \in KidStates}
                    \cup {<<Kid, k>> : k \in KidStates \ {Kid}}}

\* one call of the gate
Gate ==
    /\ fin.fn = "_modify_activity_location_if_needed"
    /\ ~fout.done
    /\ LET returned(o) == [done |-> TRUE, h |-> o.h, mp |-> o.mp, exc |-> o.exc]
       IN  fout' = returned(_modify_activity_location_if_needed(fin.h, fin.mp, 1, t0, fin.env))
    /\ UNCHANGED <<fin, rdVars, msVars, plannerVars, cityVars>>

\* heap of a _patch_kid_schedule call: 1 = the kid's current sleep, 2..4 =
\* the adult's schedule for the next day (an activity, an idle, the sleep, in
\* continuation of each other), 5 = the kid's work activity when there is one
KidPlanners ==
    {MobilityPlanner,
     [MobilityPlanner EXCEPT !.hospitalization_timestamp = t0,
                             !.location_of_hospitalization = "hospital"]}
KidAdultFirst == {<<"work", "workplace">>, <<"socialize", "None">>, <<"grocery", "None">>}
FnKidInputs ==
    {i \in
     {[fn |-> "_patch_kid_schedule",
      h |-> <<Activity(cs, cd, "sleep", "household", Human, None, "", ""),
              Activity(as, d1, n[1], n[2], Proposer, 1, "", ""),
              Activity(as + d1, d2, "idle", "household", Proposer, None, "", ""),
              Activity(as + d1 + d2, 2, "sleep", "household", Proposer, None, "", "")>>
             \o (IF w = None THEN <<>>
                 ELSE <<Activity(None, w, "work", "workplace", Human, 1, "", "")>>),
      mp |-> self, work_start_time |-> ws, work_activity |-> IF w = None THEN None ELSE 5,
      max_awake_duration |-> m, awake |-> 3, sleep |-> 2] :
        cs \in {5}, cd \in {2, 3}, as \in 7..9, d1 \in 1..2, d2 \in 1..2,
        n \in KidAdultFirst, w \in {None, 0, 2}, ws \in {1, 3}, m \in {0, 3, 5},
        self \in KidPlanners} :
        \* the adult's own _add_to_the_schedule kept the grocery within the
        \* store's hours
        i.h[2].name = "grocery" =>
            /\ _get_seconds_since_midnight(i.h[2].start_time) >= OPEN_CLOSE_TIMES.STORE[1]
            /\ _get_seconds_since_midnight(i.h[2].start_time) + i.h[2].duration
                   <= OPEN_CLOSE_TIMES.STORE[2]}

\* _patch_kid_schedule(human, adult_schedule, work_activity, current_activity, conf)
PatchKidSchedule ==
    /\ fin.fn = "_patch_kid_schedule"
    /\ ~fout.done
    /\ LET returned(r) == [done |-> TRUE, h |-> r.h, schedule |-> r.schedule, exc |-> r.exc]
       IN  fout' = returned(_patch_kid_schedule(fin.h, fin.mp, fin.work_start_time, <<2, 3, 4>>,
                                                fin.work_activity, 1, fin.max_awake_duration,
                                                fin.awake, fin.sleep))
    /\ UNCHANGED <<fin, rdVars, msVars, plannerVars, cityVars>>

\* heap of an _add_to_the_schedule call: 1 = last_activity, 2 = the activity
\* to add, which starts at or after the end of last_activity;
\* MaxAddDur is the longest duration the configuration lets the sampler draw
MaxAddDur == 8
AddNames == {<<"grocery", "None">>, <<"socialize", "None">>, <<"idle", "household">>}
FnAddInputs ==
    {[fn |-> "_add_to_the_schedule",
      h |-> <<Activity(ls, ld, "sleep", "household", Human, None, "", ""),
              Activity(ls + ld + gap, d, n[1], n[2], Human, td, "", "")>>] :
        ls \in {5}, ld \in {2, 3}, gap \in 0..2, d \in 0..MaxAddDur, n \in AddNames,
        td \in {None, 0, 1}}

\* _add_to_the_schedule(human, schedule, activity, last_activity, awake_duration)
AddToTheSchedule ==
    /\ fin.fn = "_add_to_the_schedule"
    /\ ~fout.done
    /\ LET returned(r) == [done |-> TRUE, h |-> r.h, schedule |-> r.schedule, exc |-> r.exc]
       IN  fout' = returned(_add_to_the_schedule(fin.h, <<>>, 2, 1, 0))
    /\ UNCHANGED <<fin, rdVars, msVars, plannerVars, cityVars>>

InitFn ==
    /\ RDIdle /\ MSIdle /\ PlannerIdle /\ CityIdle
    /\ fin \in {i \in FnHardInputs : i.h[2].start_time < end_time(i.h[1])} \cup FnPatchInputs \cup FnCancelInputs
                 \cup FnInviteInputs \cup FnGateInputs
    /\ fout = [done |-> FALSE]
NextFn == HardChanges \/ PatchSchedule \/ CancelAndStay \/ Invite \/ Gate
SpecFn == InitFn /\ [][NextFn]_vars

\* SpecBuild: single calls of _patch_kid_schedule and _add_to_the_schedule
InitBuild ==
    /\ RDIdle /\ MSIdle /\ PlannerIdle /\ CityIdle
    /\ fin \in FnKidInputs \cup FnAddInputs
    /\ fout = [done |-> FALSE]
NextBuild == PatchKidSchedule \/ AddToTheSchedule
SpecBuild == InitBuild /\ [][NextBuild]_vars

\* ------------------------------------------------------------------------
\* SpecHosp: several humans and the hospitals of their city.  Each human's
\* planner finalises one activity after another; the hospitals keep their
\* patients
\* ------------------------------------------------------------------------
HospHumans == {"A", "B", "C"}
Hospitals == {"H1", "H2"}
\* hospital.icu
icu == [hospital \in Hospitals |-> IF hospital = "H1" THEN "H1-icu" ELSE "H2-icu"]
HospLocations == Hospitals \cup {icu[hospital] : hospital \in Hospitals}
\* Hospital.capacity / ICU.capacity
capacity == [l \in HospLocations |-> 1]
\* the last simulated time, and the duration of every activity
MaxHospTime == 4
HospStep == SECONDS_PER_DAY \div 2

\* Hospital.n_patients
n_patients(patients, l) == Cardinality(patients[l])
\* Hospital.admit_patient(human, until)
admit_patient(patients, l, human) == [patients EXCEPT ![l] = @ \cup {human}]
\* Hospital.discharge(human)
discharge(patients, l, human) == [patients EXCEPT ![l] = @ \ {human}]

\* _select_location that also takes a hospital that is exactly full
_select_location_atCapacity(activity, hospitals, patients) ==
    LET place(i) == IF activity = "hospital" THEN hospitals[i] ELSE icu[hospitals[i]]
        free == {i \in 1..Len(hospitals) : n_patients(patients, place(i)) <= capacity[place(i)]}
    IN  IF free = {} THEN "None"
        ELSE place(CHOOSE i \in free : \A j \in free : i <= j)

\* _select_location for "hospital" and "hospital-icu"; hospitals is
\* sorted(filter_open(city.hospitals), key=distance): the first one with a
\* free place, or None
_select_location(activity, hospitals, patients) ==
    LET place(i) == IF activity = "hospital" THEN hospitals[i] ELSE icu[hospitals[i]]
        free == {i \in 1..Len(hospitals) : n_patients(patients, place(i)) < capacity[place(i)]}
    IN  IF free = {} THEN "None"
        ELSE place(CHOOSE i \in free : \A j \in free : i <= j)

\* the open hospitals of the city in the order of their distance to a human
HospitalOrders ==
    {o \in UNION {[1..n -> Hospitals] : n \in 0..Cardinality(Hospitals)} :
        \A i, j \in DOMAIN o : i # j => o[i] # o[j]}

\* what the health model of a human says when an activity is finalised
HospInputs ==
    {Healthy,
     [Healthy EXCEPT !.will_die = TRUE],
     [Healthy EXCEPT !.dies_next = TRUE],
     [Healthy EXCEPT !.hosp_due = TRUE],
     [Healthy EXCEPT !.hosp_due = TRUE, !.recovery_days = 1],
     [Healthy EXCEPT !.crit_due = TRUE, !.will_die = TRUE],
     [Healthy EXCEPT !.crit_due = TRUE, !.will_die = TRUE, !.recovery_days = 1],
     [Healthy EXCEPT !.death_due = TRUE, !.will_die = TRUE]}

\* the calls on the Hospital objects in _move_relevant_activities_to_hospital
\* (discharge from the old place, admit to the new one) and in _human_dies
\* (discharge), for a planner whose location_of_hospitalization went from old
\* to new
HospitalCalls(patients, human, old, new) ==
    LET discharged == IF old # "None" THEN discharge(patients, old, human) ELSE patients
    IN  IF new # "None" THEN admit_patient(discharged, new, human) ELSE discharged

\* which of the thresholds "1. hospitalized given symptoms" and "2. critical
\* given hospitalized" a call of the gate acts on, if any
Threshold(self, e, timestamp) ==
    LET in_hospital == self.hospitalization_timestamp # None
                          \/ self.critical_condition_timestamp # None
        recovered == in_hospital /\ ~e.will_die
                        /\ timestamp >= self.hospitalization_recovery_timestamp
        recovering == in_hospital /\ ~recovered
                         /\ timestamp < self.hospitalization_recovery_timestamp
        hospitalized == ~recovered /\ self.hospitalization_timestamp # None
    IN  IF e.dies_next \/ recovering THEN "none"
        ELSE IF e.hosp_due /\ ~hospitalized THEN "hospitalization"
        ELSE IF e.crit_due /\ hospitalized
                /\ (recovered \/ self.critical_condition_timestamp = None)
        THEN "critical"
        ELSE "none"

\* a planner before its first activity, and the city with empty hospitals
InitHosp ==
    /\ RDIdle /\ MSIdle /\ PlannerIdle /\ FnIdle
    /\ city = [timestamp |-> t0, patients |-> [l \in HospLocations |-> {}], halted |-> FALSE,
               res |-> [op |-> "none"]]
    /\ planners = [human \in HospHumans |->
                      [mp |-> [MobilityPlanner EXCEPT !.current_activity = 1],
                       h |-> <<Activity(t0, 0, "sleep", "household", human, None, "", "")>>]]

\* the human's current activity has ended: the planner finalises the next
\* one (_modify_activity_location_if_needed), looking for a hospital or an ICU
\* among the open hospitals when the health model asks for one.  An exception
\* ends the simulation
HospGate(human) ==
    /\ ~city.halted
    /\ planners[human].mp.death_timestamp = None
    /\ city.timestamp = end_time(planners[human].h[1])
    /\ \E e \in HospInputs, hospitals \in HospitalOrders :
          LET self == planners[human].mp
              activity == IF e.crit_due THEN "hospital-icu" ELSE "hospital"
              env == [e EXCEPT !.hospital = _select_location(activity, hospitals, city.patients)]
              h == <<Activity(city.timestamp, HospStep, "idle", "household", human, None, "", "")>>
              returned(o) ==
                  /\ planners' = [planners EXCEPT ![human] = [mp |-> o.mp, h |-> o.h]]
                  /\ city' = [city EXCEPT
                        !.res = [op |-> "gate", human |-> human, exc |-> o.exc,
                                 threshold |-> Threshold(self, e, city.timestamp),
                                 activity |-> activity, hospital |-> env.hospital,
                                 was_at |-> self.location_of_hospitalization,
                                 none_free |-> \A l \in Hospitals :
                                     LET place == IF e.crit_due THEN icu[l] ELSE l
                                     IN  n_patients(city.patients, place) >= capacity[place]],
                        !.patients = IF o.mp.location_of_hospitalization
                                           = self.location_of_hospitalization
                                     THEN @
                                     ELSE HospitalCalls(@, human, self.location_of_hospitalization,
                                                        o.mp.location_of_hospitalization),
                        !.halted = o.exc # "none"]
          IN  returned(_modify_activity_location_if_needed(h, self, 1, city.timestamp, env))
    /\ UNCHANGED <<rdVars, msVars, plannerVars, fnVars>>

\* the clock moves on once every living human is in an activity that has not
\* ended
HospTick ==
    /\ ~city.halted
    /\ city.timestamp + HospStep <= MaxHospTime
    /\ \A human \in HospHumans :
          \/ planners[human].mp.death_timestamp # None
          \/ city.timestamp < end_time(planners[human].h[1])
    /\ city' = [city EXCEPT !.timestamp = @ + HospStep, !.res = [op |-> "tick"]]
    /\ UNCHANGED <<planners, rdVars, msVars, plannerVars, fnVars>>

NextHosp == (\E human \in HospHumans : HospGate(human)) \/ HospTick
SpecHosp == InitHosp /\ [][NextHosp]_vars

\* ------------------------------------------------------------------------
\* SpecCourse: the course of one human through hospitalization.  The flags
\* MobilityPlanner.__init__ draws once (human_will_be_critical_if_hospitalized,
\* human_will_die_if_critical) and the averages of the configuration stay the
\* same during a run
\* ------------------------------------------------------------------------
\* the last simulated time
MaxCourseTime == 24

\* conf['AVERAGE_DAYS_RECOVERY_IF_HOSPITALIZED' / '..._IF_CRITICAL'],
\* conf['AVERAGE_DAYS_TO_CRITICAL_IF_HOSPITALIZED'] and
\* conf['AVERAGE_DAYS_DEATH_IF_CRITICAL'], in days
CourseConfs == [recovery_days : 0..1, to_critical : 0..1, to_death : 0..1]

\* what the gate reads at one call.  due: the human-side conditions of
\* "1. hospitalized given symptoms"; the human of a planner that leaves the
\* hospital has recovered from the infection (check_covid_recovery)
CourseEnv(c, self, timestamp, due, hospital) ==
    LET in_hospital == self.hospitalization_timestamp # None
                          \/ self.critical_condition_timestamp # None
    IN  [Healthy EXCEPT
            !.will_die = c.will_die,
            !.hosp_due = due /\ ~in_hospital,
            !.crit_due = /\ c.will_be_critical
                         /\ self.hospitalization_timestamp # None
                         /\ timestamp - self.hospitalization_timestamp
                               >= c.conf.to_critical * SECONDS_PER_DAY,
            !.death_due = /\ self.critical_condition_timestamp # None
                          /\ timestamp - self.critical_condition_timestamp
                                >= c.conf.to_death * SECONDS_PER_DAY,
            !.hospital = hospital,
            !.recovery_days = c.conf.recovery_days]

\* a planner before its first activity
InitCourse ==
    /\ RDIdle /\ MSIdle /\ PlannerIdle /\ FnIdle
    /\ \E wc \in BOOLEAN, wd \in BOOLEAN, conf \in CourseConfs :
          city = [timestamp |-> t0, halted |-> FALSE, res |-> [op |-> "none"],
                  will_be_critical |-> wc, will_die |-> wd, conf |-> conf]
    /\ planners = [human \in {Human} |->
                      [mp |-> [MobilityPlanner EXCEPT !.current_activity = 1],
                       h |-> <<Activity(t0, 0, "sleep", "household", human, None, "", "")>>]]

\* the current activity of the human has ended: the planner finalises the
\* next one, which lasts half a day or a day
CourseGate ==
    /\ ~city.halted
    /\ planners[Human].mp.death_timestamp = None
    /\ city.timestamp = end_time(planners[Human].h[1])
    /\ city.timestamp < MaxCourseTime
    /\ \E due \in BOOLEAN, hospital \in {"hospital", "None"},
          d \in {HospStep, SECONDS_PER_DAY} :
          LET self == planners[Human].mp
              h == <<Activity(city.timestamp, d, "idle", "household", Human, None, "", "")>>
              returned(o) ==
                  /\ planners' = [planners EXCEPT ![Human] = [mp |-> o.mp, h |-> o.h]]
                  /\ city' = [city EXCEPT !.res = [op |-> "gate", exc |-> o.exc],
                                          !.halted = o.exc # "none"]
          IN  returned(_modify_activity_location_if_needed(
                           h, self, 1, city.timestamp,
                           CourseEnv(city, self, city.timestamp, due, hospital)))
    /\ UNCHANGED <<rdVars, msVars, plannerVars, fnVars>>

\* the clock reaches the end of the current activity
CourseTick ==
    /\ ~city.halted
    /\ planners[Human].mp.death_timestamp = None
    /\ city.timestamp < end_time(planners[Human].h[1])
    /\ end_time(planners[Human].h[1]) <= MaxCourseTime
    /\ city' = [city EXCEPT !.timestamp = end_time(planners[Human].h[1]),
                            !.res = [op |-> "tick"]]
    /\ UNCHANGED <<planners, rdVars, msVars, plannerVars, fnVars>>

NextCourse == CourseGate \/ CourseTick
SpecCourse == InitCourse /\ [][NextCourse]_vars
\* the process of a living human keeps running: it waits for the end of its
\* activity and asks the planner for the next one
SpecCourseFair == SpecCourse /\ WF_vars(CourseGate) /\ WF_vars(CourseTick)

\* C12: no hospital and no ICU ever holds more patients than its capacity, and
\* a search for a hospital (an ICU) made when every hospital (ICU) is full
\* finds none.
C12_PatientsWithinCapacity ==
    planners # <<>> =>
        /\ \A l \in HospLocations : n_patients(city.patients, l) <= capacity[l]
        /\ (city.res.op = "gate" /\ city.res.none_free) => city.res.hospital = "None"

\* both hospitals are full and the search of a third human who is due for
\* hospitalization has found nothing
C12_Witness ==
    /\ planners # <<>>
    /\ \A l \in Hospitals : n_patients(city.patients, l) = capacity[l]
    /\ city.res.op = "gate"
    /\ city.res.threshold = "hospitalization"
    /\ city.res.none_free
    /\ city.res.hospital = "None"
    /\ \A l \in HospLocations : city.res.human \notin city.patients[l]

C17_PatchedScheduleContiguous ==
    (fin.fn = "_patch_schedule" /\ fout.done) =>
        LET sch == fout.schedule
            a(i) == fout.h[sch[i]]
        IN  /\ fout.exc = "none"
            /\ sch # <<>>
            /\ a(1).start_time = end_time(fout.h[1])
            /\ \A i \in 1..(Len(sch) - 1) : end_time(a(i)) = a(i + 1).start_time
            /\ \A i \in 1..Len(sch) : a(i).duration >= 0
            /\ fout.h[1].duration >= 0
            /\ a(Len(sch)).name = "sleep"
            /\ sch[Len(sch)] > Len(fin.h)

\* an oversubscribed day: work cut the previous sleep short, an idle activity
\* fills a gap, and the closing sleep met the last scheduled activity
C17_Witness ==
    /\ fin.fn = "_patch_schedule" /\ fout.done /\ fout.exc = "none"
    /\ 0 < fout.h[1].duration /\ fout.h[1].duration < fin.h[1].duration
    /\ \E i \in 1..Len(fout.schedule) : fout.h[fout.schedule[i]].name = "idle"
    /\ \E i \in 1..Len(fout.schedule) :
          /\ fout.schedule[i] <= Len(fin.h)
          /\ 0 < fout.h[fout.schedule[i]].duration
          /\ fout.h[fout.schedule[i]].duration < fin.h[fout.schedule[i]].duration
    /\ fout.h[fout.schedule[Len(fout.schedule)]].duration > 0

\* C14: the cancel operation of the health-state gate returns normally, keeps
\* the cancelled activity's start_time and duration, and changes nothing but
\* that activity's location, is_cancelled flag and appended reason: no other
\* activity, no rsvp set and no parent pointer is altered.
C14_CancelChangesOnlyLocation ==
    (fin.fn = "cancel_and_stay_at_location" /\ fout.done) =>
        /\ fout.exc = "none"
        /\ fout.h[2].start_time = fin.h[2].start_time
        /\ fout.h[2].duration = fin.h[2].duration
        /\ fout.h[2] = [fin.h[2] EXCEPT !.location = fout.h[2].location,
                                        !.is_cancelled = fout.h[2].is_cancelled,
                                        !.append_name = fout.h[2].append_name]
        /\ fout.h[1] = fin.h[1]

\* C15: an activity that get_next_activity returns for a living human has a
\* concrete location (not None), whichever branch of the gate handled it;
\* invited activities, which take their location from the proposer's
\* activity, included.
C15_ReturnedActivityLocated ==
    (res.op = "get_next_activity" /\ res.exc = "none" /\ mp.death_timestamp = None) =>
        heap[mp.current_activity].location # "None"

\* C18: called with next_activity starting before last_activity ends,
\* _make_hard_changes_to_activity_for_scheduling shortens exactly one of the
\* two by the overlap, never to a negative duration, so that next_activity
\* starts where last_activity ends; a next_activity that is cut keeps its end.
C18_HardChangeCutsOne ==
    (fin.fn = "_make_hard_changes_to_activity_for_scheduling" /\ fout.done) =>
        LET l0 == fin.h[1]
            n0 == fin.h[2]
            l1 == fout.h[1]
            n1 == fout.h[2]
            overlap == end_time(l0) - n0.start_time
        IN  /\ fout.exc = "none"
            /\ l1.duration >= 0 /\ n1.duration >= 0
            /\ n1.start_time = end_time(l1)
            /\ \/ l1.duration = l0.duration - overlap /\ l1.start_time = l0.start_time /\ n1 = n0
               \/ n1.duration = n0.duration - overlap /\ end_time(n1) = end_time(n0) /\ l1 = l0

\* C21: a delete, by a point or by a (start, end) key, removes exactly the
\* stored interval that owns the key (the one holding the point, or the start
\* of the range), keeps every other interval with its value, and leaves the
\* forward table, the backward table and the value map listing the same
\* intervals; with no owner nothing changes.
C21_DeleteRemovesOwner ==
    [][rdres'.op \in {"delete", "delete_range"} =>
         LET p == rdres'.key[1]
             owners == {q \in DOMAIN rd.store : q[1] <= p /\ p < q[2]}
         IN  /\ owners = {} => rd' = rd /\ rdres'.exc = RangDictKeyException
             /\ owners # {} =>
                   /\ rdres'.exc = "none"
                   /\ DOMAIN rd'.store = DOMAIN rd.store \ owners
                   /\ \A q \in DOMAIN rd'.store : rd'.store[q] = rd.store[q]
                   /\ Len(rd'.FLUT) = Cardinality(DOMAIN rd'.store)
                   /\ Len(rd'.BLUT) = Len(rd'.FLUT)
                   /\ \A i \in 1..Len(rd'.FLUT) :
                         /\ rd'.FLUT[i] \in DOMAIN rd'.store
                         /\ rd'.BLUT[i] = <<rd'.FLUT[i][2], rd'.FLUT[i][1]>>]_vars

\* C22: the error of a failed lookup is of another kind than the error of any
\* insert that fails because its range overlaps a stored interval, so the error
\* alone tells "nothing scheduled here" from "cannot schedule here".
C22_LookupErrorDistinct ==
    (rdres.op = "lookup" /\ rdres.exc # "none") =>
        \A s \in 0..MaxKey, e \in 0..MaxKey :
            (s < e /\ \E q \in DOMAIN rd.store : Intersects(<<s, e>>, q))
                => __setitem__(rd, <<s, e>>, "u").exc # rdres.exc

C24_InviteCollectsAcceptances ==
    (fin.fn = "invite" /\ fout.done) =>
        LET NotInviter(c) == c # Proposer
            others == SelectSeq(fin.connections, NotInviter)
        IN  /\ fin.activity.duration < MIN_DURATION =>
                  /\ fout.called = <<>>
                  /\ fout.planners = fin.planners
                  /\ fout.activity = fin.activity
                  /\ fout.exc = "none"
            /\ fin.activity.duration >= MIN_DURATION =>
                  /\ Len(fout.called) = Len(others)
                  /\ \A i \in 1..Len(others) : fout.called[i][1] = others[i]
                  /\ fout.exc = "none" =>
                        /\ fout.activity.rsvp =
                               {fout.called[i][1] : i \in {k \in 1..Len(fout.called) :
                                                              fout.called[k][2] = "True"}}
                        /\ Proposer \notin fout.activity.rsvp
                        /\ fout.activity = [fin.activity EXCEPT !.rsvp = fout.activity.rsvp]

\* C25: for every activity A and every agent in A.rsvp, the schedule of the
\* agent holds a non-cancelled invitation whose parent pointer is A and whose
\* interval is A's, as long as A has not ended; an invitee whose invitation
\* is cancelled, cut or dropped is no longer in A.rsvp.
C25_RsvpHoldsInvitation ==
    pc \in {"initialized", "running"} =>
        \A a \in DOMAIN heap :
            (Human \in heap[a].rsvp /\ end_time(heap[a]) > now) =>
                LET schedule == <<mp.current_activity>> \o mp.schedule_for_day
                                    \o (IF mp.full_schedule # <<>> THEN mp.full_schedule[1]
                                        ELSE <<>>)
                IN  \E i \in 1..Len(schedule) :
                        /\ heap[schedule[i]].prepend_name = "invitation"
                        /\ heap[schedule[i]].parent_activity_pointer = a
                        /\ ~heap[schedule[i]].is_cancelled
                        /\ heap[schedule[i]].start_time = heap[a].start_time
                        /\ heap[schedule[i]].duration = heap[a].duration

\* C26: once an activity has become the current activity of the agent, no
\* operation changes its start_time or its duration any more, an edit through
\* scheduling_interface at the instant the clock equals its start or its end
\* included.
C26_CurrentActivityFrozen ==
    [][(pc = "running" /\ mp'.current_activity = mp.current_activity) =>
           /\ heap'[mp.current_activity].start_time = heap[mp.current_activity].start_time
           /\ heap'[mp.current_activity].duration = heap[mp.current_activity].duration]_vars

\* C27: from admission until the recovery time the gate returns, for an agent
\* that is hospitalized or critical, an activity located at the agent's
\* location_of_hospitalization.
C27_HospitalizedActivityAtHospital ==
    (/\ res.op = "get_next_activity"
     /\ mp.death_timestamp = None
     /\ (mp.hospitalization_timestamp # None \/ mp.critical_condition_timestamp # None)
     /\ now < mp.hospitalization_recovery_timestamp) =>
        /\ res.exc = "none"
        /\ heap[mp.current_activity].location = mp.location_of_hospitalization

\* C28: an agent that is hospitalized or critical eventually dies or has
\* hospitalization_timestamp and critical_condition_timestamp cleared, for
\* every combination of the will-be-critical and will-die flags, unless the
\* simulated time ends before a gate evaluation that follows its admission and
\* comes at or after the time at which its recovery (or its turn to critical,
\* or its death) is due.
C28_CourseInHospital ==
    \/ planners[Human].mp.hospitalization_timestamp # None
    \/ planners[Human].mp.critical_condition_timestamp # None
C28_CourseDeadline ==
    LET self == planners[Human].mp
        step(days) == days * SECONDS_PER_DAY
        recovery == self.hospitalization_recovery_timestamp
        critical == IF city.will_be_critical /\ city.will_die
                       /\ self.critical_condition_timestamp = None
                    THEN self.hospitalization_timestamp + step(city.conf.to_critical)
                    ELSE recovery
        death == IF city.will_die /\ self.critical_condition_timestamp # None
                 THEN self.critical_condition_timestamp + step(city.conf.to_death)
                 ELSE recovery
        later(a, b) == IF a >= b THEN a ELSE b
    IN  later(recovery, later(critical, death))
C28_CourseTimeOver ==
    LET self == planners[Human].mp
        ends == end_time(planners[Human].h[1])
        last_gate == planners[Human].h[1].start_time
        entered == IF self.critical_condition_timestamp # None
                   THEN self.critical_condition_timestamp
                   ELSE self.hospitalization_timestamp
    IN  /\ ~city.halted
        /\ \/ city.timestamp = ends /\ city.timestamp >= MaxCourseTime
           \/ city.timestamp < ends /\ ends > MaxCourseTime
        /\ last_gate = entered \/ last_gate < C28_CourseDeadline
C28_HospitalizationEnds ==
    C28_CourseInHospital ~>
        (\/ planners[Human].mp.death_timestamp # None
         \/ ~C28_CourseInHospital
         \/ C28_CourseTimeOver)

\* C29: in every reachable state location_of_hospitalization is set exactly
\* when hospitalization_timestamp or critical_condition_timestamp is set and
\* the agent is alive; after recovery or death it is None.
C29_HospitalLocationMatchesTimestamps ==
    ~city.halted =>
        LET self == planners[Human].mp
        IN  self.location_of_hospitalization # "None" <=>
               /\ self.death_timestamp = None
               /\ \/ self.hospitalization_timestamp # None
                  \/ self.critical_condition_timestamp # None

\* C30: when an agent that is not dying or hospitalized supervises a living
\* dependent who is hospitalized, quarantined or resting at home, the gate
\* returns the agent's activity cancelled and located at the dependent's
\* location (its hospital, or its household), whatever location the activity
\* had before, none included.
C30_SupervisorGoesToDependent ==
    (fin.fn = "_modify_activity_location_if_needed" /\ fout.done) =>
        LET needs(k) == \/ k.location_of_hospitalization # "None"
                        \/ k.quarantining
                        \/ k.human_to_rest_at_home
            kids == fin.env.kids
            first == CHOOSE i \in 1..Len(kids) :
                         needs(kids[i]) /\ \A j \in 1..(i - 1) : ~needs(kids[j])
        IN  (\E i \in 1..Len(kids) : needs(kids[i])) =>
                /\ fout.exc = "none"
                /\ fout.h[1].is_cancelled
                /\ fout.h[1].location =
                      IF kids[first].location_of_hospitalization # "None"
                      THEN kids[first].location_of_hospitalization
                      ELSE kids[first].household

\* C31: whenever the gate reaches the rest-at-home check and the agent is to
\* rest at home, the activity it returns is located at the household of the
\* agent, whatever its location was before, an unresolved one (None) included.
C31_RestAtHomeAtHousehold ==
    (/\ fin.fn = "_modify_activity_location_if_needed"
     /\ fout.done
     /\ inverted_supervision_loop(fin.mp, fin.h[1], fin.env.kids, 1) = "none"
     /\ ~fin.env.quarantining
     /\ fout.mp.human_to_rest_at_home) =>
        /\ fout.exc = "none"
        /\ fout.h[1].location = "household"

\* C32: the rest-at-home flag is latched: once human_to_rest_at_home is True
\* it is still True after every gate evaluation that reaches the rest-at-home
\* check, until the agent has recovered.
C32_RestAtHomeLatched ==
    (/\ fin.fn = "_modify_activity_location_if_needed"
     /\ fout.done
     /\ inverted_supervision_loop(fin.mp, fin.h[1], fin.env.kids, 1) = "none"
     /\ ~fin.env.quarantining
     /\ fin.mp.human_to_rest_at_home
     /\ ~fin.env.recovered) =>
        fout.mp.human_to_rest_at_home

\* C33: for an adult schedule that meets the preconditions of
\* _patch_kid_schedule and any work activity, the call returns a schedule that
\* starts where the kid's current sleep ends, is contiguous, ends in a sleep,
\* leaves the current activity's start and duration as they were and changes
\* no activity of the adult's schedule
C33_Preconditions ==
    /\ fin.fn = "_patch_kid_schedule"
    /\ fin.h[1].name = "sleep" /\ fin.h[4].name = "sleep"
    /\ \A i \in 2..4 : end_time(fin.h[i]) > fin.h[1].start_time
    /\ \E i \in 2..4 : fin.h[i].start_time > end_time(fin.h[1])
C33_KidScheduleWellFormed ==
    (C33_Preconditions /\ fout.done) =>
        /\ fout.exc = "none"
        /\ fout.schedule # <<>>
        /\ fout.h[fout.schedule[1]].start_time = end_time(fin.h[1])
        /\ \A i \in 1..(Len(fout.schedule) - 1) :
               end_time(fout.h[fout.schedule[i]]) = fout.h[fout.schedule[i + 1]].start_time
        /\ fout.h[fout.schedule[Len(fout.schedule)]].name = "sleep"
        /\ fout.h[1].start_time = fin.h[1].start_time
        /\ fout.h[1].duration = fin.h[1].duration
        /\ \A i \in 2..4 : fout.h[i] = fin.h[i]

\* C34: an activity that _add_to_the_schedule appends for a location that is
\* not open all day starts at or after the opening time of the location and
\* ends at or before its closing time
C34_AppendedWithinOpeningHours ==
    (/\ fin.fn = "_add_to_the_schedule" /\ fout.done /\ fout.exc = "none"
     /\ InSeq(2, fout.schedule)
     /\ _get_open_close_times(fin.h[2].name, fin.h[2].location) # <<0, SECONDS_PER_DAY>>) =>
        LET oc == _get_open_close_times(fin.h[2].name, fin.h[2].location)
            started == _get_seconds_since_midnight(fout.h[2].start_time)
        IN  /\ started >= oc[1]
            /\ started + fout.h[2].duration <= oc[2]

\* C35: a scheduling_interface mutator returns failure and changes nothing
\* when the activity it targets is already over, is the current activity of
\* the agent, is a sleep, or belongs to an agent that follows an adult's
\* schedule, whatever the clock value, the exact start and end of the
\* activity included.  insert_activity targets the activities whose time it
\* is to take
C35_Targets ==
    IF fin.fn = "insert_activity"
    THEN {a \in 1..(Len(fin.h) - 1) :
              InSeq(a, get_range(fin.mp.backing_schedule, fin.h[fin.activity].start_time,
                                 TRUE, end_time(fin.h[fin.activity]) - 1))}
    ELSE IF fin.fn = "update_schedule" THEN {}
    ELSE {fin.activity}
C35_Protected(a) ==
    \/ end_time(fin.h[a]) <= fin.timestamp
    \/ a = fin.mp.current_activity
    \/ fin.h[a].name = "sleep"
    \/ fin.mp.follows_adult_schedule
C35_ProtectedActivityRefused ==
    (fout.done /\ \E a \in C35_Targets : C35_Protected(a)) =>
        /\ fout.exc = "none" /\ fout.ret = "False"
        /\ fout.mp = fin.mp
        /\ \A a \in 1..Len(fin.h) : fout.h[a] = fin.h[a]

\* C36: a time edit of scheduling_interface (adjust_start_time, adjust_end_time,
\* delete_activity, insert_activity) either fails and leaves the backing store
\* as it was, or leaves the backing store covering the same overall span as
\* before, with no gap and no overlap, each entry keyed by the bounds its
\* activity has after the edit
C36_TimeEdits == {"adjust_start_time", "adjust_end_time", "delete_activity", "insert_activity"}
C36_StoreWellFormed ==
    LET before == fin.mp.backing_schedule.FLUT
        after == fout.mp.backing_schedule.FLUT
        store == fout.mp.backing_schedule.store
    IN  /\ after # <<>>
        /\ after[1][1] = before[1][1]
        /\ after[Len(after)][2] = before[Len(before)][2]
        /\ \A i \in 1..(Len(after) - 1) : after[i][2] = after[i + 1][1]
        /\ \A k \in DOMAIN store :
               /\ fout.h[store[k]].start_time = k[1]
               /\ end_time(fout.h[store[k]]) = k[2]
C36_TimeEditKeepsStore ==
    (fout.done /\ fin.fn \in C36_TimeEdits) =>
        \/ fout.ret # "True" /\ fout.mp.backing_schedule = fin.mp.backing_schedule
        \/ C36_StoreWellFormed

\* C37: update_schedule returns for every non-empty list of replacement
\* activities, and on return a day sequence of the planner (the rest of the
\* current day or a later day) holds each replacement activity exactly once,
\* the sequence being in the order of the start times
C37_DaySequences ==
    {fout.mp.schedule_for_day}
        \cup {fout.mp.full_schedule[i] : i \in 1..Len(fout.mp.full_schedule)}
C37_ReplacementsInOrder ==
    (fout.done /\ fin.fn = "update_schedule") =>
        /\ fout.exc = "none"
        /\ \E day \in C37_DaySequences :
              /\ \A k \in 1..Len(fin.arg) :
                     Cardinality({i \in 1..Len(day) : day[i] = fin.arg[k]}) = 1
              /\ \A i \in 1..(Len(day) - 1) :
                     fout.h[day[i]].start_time <= fout.h[day[i + 1]].start_time

\* C38: whenever send_social_invites runs for an agent that may send invites,
\* at most one socialize activity is among the activities of today, so the
\* assertion of send_social_invites does not fail
C38_AtMostOneSocialToday ==
    res.op = "send_social_invites" => res.exc # "AssertionError"

\* C39: every activity whose parent pointer is set is tagged "invitation" or
\* "supervised", also after a supervised or an invited activity was cancelled
C39_Tagged(h) ==
    \A i \in 1..Len(h) :
        h[i].parent_activity_pointer # None => h[i].prepend_name \in {"invitation", "supervised"}
C39_ParentPointerTagged ==
    (fin.fn = "cancel_and_stay_at_location" /\ fout.done /\ C39_Tagged(fin.h)) =>
        C39_Tagged(fout.h)

\* C40: every entry of the agent's backing store is keyed by exactly the
\* current (start_time, end_time) of the activity it holds
C40_StoreKeyedByCurrentTimes ==
    \A k \in DOMAIN mp.backing_schedule.store :
        k = <<heap[mp.backing_schedule.store[k]].start_time,
              end_time(heap[mp.backing_schedule.store[k]])>>

====
